---- MODULE Spec2Model ----
(***************************************************************************)
(* State-machine model of MemoryCache (humanspeak/memory-cache): the      *)
(* ordered entry store with LRU eviction and TTL expiration, its          *)
(* statistics, the pattern deletions, the lifecycle hooks and the         *)
(* single-flight getOrSet.                                                 *)
(*                                                                         *)
(* Keys are sequences of one-character strings (<<>> is the empty key ''),*)
(* so that startsWith and the wildcard regular expression are computed    *)
(* character by character.  The store is a sequence of entries in the     *)
(* iteration order of the JavaScript Map that holds them.                 *)
(***************************************************************************)
EXTENDS Integers, Sequences, FiniteSets, TLC

\* ------------------------------------------------------------------ bounds
MaxTime == 2
MaxStat == 2
MaxCalls == 2

\* --------------------------------------------------------------- alphabets
LF == "\n"

EmptyKey == <<>>

\* values a caller can store; undefined and null are ordinary payloads
Values == {"undefined", "null", "v"}

CACHED_UNDEFINED == "CACHED_UNDEFINED"

CACHED_NULL == "CACHED_NULL"

VARIABLES
    maxSize,    \* this.maxSize
    ttl,        \* this.ttl
    cache,      \* this.cache: Map<string, CacheEntry>, in iteration order
    stats,      \* this.stats
    inFlight,   \* this.inFlight: Map<string, Promise>, as a set of [key, promise]
    now,        \* Date.now()
    fetches,    \* the fetch promises created by getOrSet that are still referenced
    env,        \* the inputs the callers of this run draw from
    lru,        \* history: keys from least to most recently used
    written     \* history: key -> the value last passed to set for the stored entry

vars == <<maxSize, ttl, cache, stats, inFlight, now, fetches, env, lru, written>>

\* ------------------------------------------------------ Map<string, Entry>
MapKeys(m) == [i \in 1..Len(m) |-> m[i].key]

MapHas(m, k) == \E i \in 1..Len(m) : m[i].key = k

MapGet(m, k) == m[CHOOSE i \in 1..Len(m) : m[i].key = k]

MapDelete(m, k) == SelectSeq(m, LAMBDA e : e.key # k)

\* Map.prototype.set: an existing key keeps its position, a new key goes last
MapSet(m, k, e) ==
    IF MapHas(m, k)
    THEN [i \in 1..Len(m) |-> IF m[i].key = k THEN e ELSE m[i]]
    ELSE Append(m, e)

\* ------------------------------------------------------------------ hooks
\* callHook: the hook is called with its context; what it throws is discarded
CallHook(ev, hook, key, value, info) ==
    Append(ev, [hook |-> hook, key |-> key, value |-> value, info |-> info])

\* ------------------------------------------------------- stored sentinels
\* set wraps undefined and null into sentinels before storing
WrapValue(v) ==
    IF v = "undefined" THEN CACHED_UNDEFINED
    ELSE IF v = "null" THEN CACHED_NULL
    ELSE v

\* unwrapValue without the null sentinel's case: the sentinel itself is returned
unwrapValue_NoNull(storedValue) ==
    IF storedValue = CACHED_UNDEFINED THEN "undefined"
    ELSE storedValue

unwrapValue(storedValue) ==
    IF storedValue = CACHED_UNDEFINED THEN "undefined"
    ELSE IF storedValue = CACHED_NULL THEN "null"
    ELSE storedValue

\* the TTL test with >= in place of >: an entry of age ttl counts as expired
IsExpired_AtTtl(e, t) == ttl > 0 /\ t - e.timestamp >= ttl

\* the TTL test get, has and prune apply: this.ttl > 0 && now - timestamp > this.ttl
IsExpired(e, t) == ttl > 0 /\ t - e.timestamp > ttl

\* JavaScript truthiness of a string: only '' is falsy
Truthy(k) == Len(k) > 0

Bump(st, c) == [st EXCEPT ![c] = @ + 1]

\* ------------------------------------------------------------ operations
\* Each operation maps the engine state s = [cache, stats, events] (events =
\* the hook calls made so far in this operation) at time t to the state it
\* leaves and the value it returns.

\* get whose hit leaves the entry where it is (no delete before the re-insert)
get_NoPromote(s, key, t) ==
    IF ~MapHas(s.cache, key)
    THEN [cache |-> s.cache,
          stats |-> Bump(s.stats, "misses"),
          events |-> CallHook(s.events, "onMiss", key, "undefined", "not_found"),
          ret |-> "undefined"]
    ELSE LET entry == MapGet(s.cache, key) IN
         IF IsExpired(entry, t)
         THEN [cache |-> MapDelete(s.cache, key),
               stats |-> Bump(Bump(s.stats, "expirations"), "misses"),
               events |-> CallHook(CallHook(s.events, "onExpire", key,
                                            unwrapValue(entry.value), "get"),
                                   "onMiss", key, "undefined", "expired"),
               ret |-> "undefined"]
         ELSE [cache |-> MapSet(s.cache, key, entry),
               stats |-> Bump(s.stats, "hits"),
               events |-> CallHook(s.events, "onHit", key, unwrapValue(entry.value), ""),
               ret |-> unwrapValue(entry.value)]

\* get whose hit stores the entry again with the time of the read
get_Touch(s, key, t) ==
    IF ~MapHas(s.cache, key)
    THEN [cache |-> s.cache,
          stats |-> Bump(s.stats, "misses"),
          events |-> CallHook(s.events, "onMiss", key, "undefined", "not_found"),
          ret |-> "undefined"]
    ELSE LET entry == MapGet(s.cache, key) IN
         IF IsExpired(entry, t)
         THEN [cache |-> MapDelete(s.cache, key),
               stats |-> Bump(Bump(s.stats, "expirations"), "misses"),
               events |-> CallHook(CallHook(s.events, "onExpire", key,
                                            unwrapValue(entry.value), "get"),
                                   "onMiss", key, "undefined", "expired"),
               ret |-> "undefined"]
         ELSE [cache |-> MapSet(MapDelete(s.cache, key), key,
                                [entry EXCEPT !.timestamp = t]),
               stats |-> Bump(s.stats, "hits"),
               events |-> CallHook(s.events, "onHit", key, unwrapValue(entry.value), ""),
               ret |-> unwrapValue(entry.value)]

get(s, key, t) ==
    IF ~MapHas(s.cache, key)
    THEN [cache |-> s.cache,
          stats |-> Bump(s.stats, "misses"),
          events |-> CallHook(s.events, "onMiss", key, "undefined", "not_found"),
          ret |-> "undefined"]
    ELSE LET entry == MapGet(s.cache, key) IN
         IF IsExpired(entry, t)
         THEN [cache |-> MapDelete(s.cache, key),
               stats |-> Bump(Bump(s.stats, "expirations"), "misses"),
               events |-> CallHook(CallHook(s.events, "onExpire", key,
                                            unwrapValue(entry.value), "get"),
                                   "onMiss", key, "undefined", "expired"),
               ret |-> "undefined"]
         ELSE [cache |-> MapSet(MapDelete(s.cache, key), key, entry),
               stats |-> Bump(s.stats, "hits"),
               events |-> CallHook(s.events, "onHit", key, unwrapValue(entry.value), ""),
               ret |-> unwrapValue(entry.value)]

\* has() that promotes a live entry to most recently used, as get() does
has_Promote(s, key, t) ==
    IF ~MapHas(s.cache, key)
    THEN [cache |-> s.cache, stats |-> s.stats, events |-> s.events, ret |-> FALSE]
    ELSE LET entry == MapGet(s.cache, key) IN
         IF IsExpired(entry, t)
         THEN [cache |-> MapDelete(s.cache, key),
               stats |-> s.stats,
               events |-> CallHook(s.events, "onExpire", key,
                                   unwrapValue(entry.value), "has"),
               ret |-> FALSE]
         ELSE [cache |-> MapSet(MapDelete(s.cache, key), key, entry),
               stats |-> s.stats, events |-> s.events, ret |-> TRUE]

has(s, key, t) ==
    IF ~MapHas(s.cache, key)
    THEN [cache |-> s.cache, stats |-> s.stats, events |-> s.events, ret |-> FALSE]
    ELSE LET entry == MapGet(s.cache, key) IN
         IF IsExpired(entry, t)
         THEN [cache |-> MapDelete(s.cache, key),
               stats |-> s.stats,
               events |-> CallHook(s.events, "onExpire", key,
                                   unwrapValue(entry.value), "has"),
               ret |-> FALSE]
         ELSE [cache |-> s.cache, stats |-> s.stats, events |-> s.events, ret |-> TRUE]

\* the eviction step without this.stats.evictions++
Evict_NoCount(s) ==
    LET oldestKey == s.cache[1].key IN
    IF Truthy(oldestKey)
    THEN [cache |-> MapDelete(s.cache, oldestKey),
          stats |-> s.stats,
          events |-> CallHook(s.events, "onEvict", oldestKey,
                              unwrapValue(s.cache[1].value), "")]
    ELSE s

\* the eviction step of set: runs when the key is new and the store is full
Evict(s) ==
    LET oldestKey == s.cache[1].key IN
    IF Truthy(oldestKey)
    THEN [cache |-> MapDelete(s.cache, oldestKey),
          stats |-> Bump(s.stats, "evictions"),
          events |-> CallHook(s.events, "onEvict", oldestKey,
                              unwrapValue(s.cache[1].value), "")]
    ELSE s

\* set that applies the TTL test first: an entry older than ttl stored under
\* the key is removed as expired, and the key is then written as a new one
set_ExpireFirst(s, key, value, t) ==
    LET stale == MapHas(s.cache, key) /\ IsExpired(MapGet(s.cache, key), t)
        s0 == IF stale
              THEN [cache |-> MapDelete(s.cache, key),
                    stats |-> Bump(s.stats, "expirations"),
                    events |-> CallHook(s.events, "onExpire", key,
                                        unwrapValue(MapGet(s.cache, key).value), "set")]
              ELSE s
        isNewKey == ~MapHas(s0.cache, key)
        s1 == IF isNewKey /\ maxSize > 0 /\ Len(s0.cache) >= maxSize
              THEN Evict(s0) ELSE s0
        c2 == IF ~isNewKey THEN MapDelete(s1.cache, key) ELSE s1.cache
    IN [cache |-> MapSet(c2, key, [key |-> key, value |-> WrapValue(value),
                                   timestamp |-> t]),
        stats |-> s1.stats,
        events |-> CallHook(s1.events, "onSet", key, value,
                            IF isNewKey THEN "isUpdate=false" ELSE "isUpdate=true"),
        ret |-> "void"]

\* set that calls onSet before the onEvict of the entry it evicts
set_SetFirst(s, key, value, t) ==
    LET isNewKey == ~MapHas(s.cache, key)
        evicts == isNewKey /\ maxSize > 0 /\ Len(s.cache) >= maxSize
        onSet == CallHook(s.events, "onSet", key, value,
                          IF isNewKey THEN "isUpdate=false" ELSE "isUpdate=true")
        s1 == IF evicts THEN Evict([s EXCEPT !.events = onSet]) ELSE [s EXCEPT !.events = onSet]
        c2 == IF ~isNewKey THEN MapDelete(s1.cache, key) ELSE s1.cache
    IN [cache |-> MapSet(c2, key, [key |-> key, value |-> WrapValue(value),
                                   timestamp |-> t]),
        stats |-> s1.stats,
        events |-> s1.events,
        ret |-> "void"]

\* set that leaves an entry already stored under the key as it is
set_KeepExisting(s, key, value, t) ==
    IF MapHas(s.cache, key)
    THEN [cache |-> s.cache, stats |-> s.stats, events |-> s.events, ret |-> "void"]
    ELSE LET s1 == IF maxSize > 0 /\ Len(s.cache) >= maxSize THEN Evict(s) ELSE s IN
         [cache |-> MapSet(s1.cache, key, [key |-> key, value |-> WrapValue(value),
                                           timestamp |-> t]),
          stats |-> s1.stats,
          events |-> CallHook(s1.events, "onSet", key, value, "isUpdate=false"),
          ret |-> "void"]

\* set that evicts whenever the store is full, whether or not the key is new
set_EvictOnUpdate(s, key, value, t) ==
    LET isNewKey == ~MapHas(s.cache, key)
        s1 == IF maxSize > 0 /\ Len(s.cache) >= maxSize
              THEN Evict(s) ELSE s
        c2 == IF ~isNewKey THEN MapDelete(s1.cache, key) ELSE s1.cache
    IN [cache |-> MapSet(c2, key, [key |-> key, value |-> WrapValue(value),
                                   timestamp |-> t]),
        stats |-> s1.stats,
        events |-> CallHook(s1.events, "onSet", key, value,
                            IF isNewKey THEN "isUpdate=false" ELSE "isUpdate=true"),
        ret |-> "void"]

set(s, key, value, t) ==
    LET isNewKey == ~MapHas(s.cache, key)
        s1 == IF isNewKey /\ maxSize > 0 /\ Len(s.cache) >= maxSize
              THEN Evict(s) ELSE s
        c2 == IF ~isNewKey THEN MapDelete(s1.cache, key) ELSE s1.cache
    IN [cache |-> MapSet(c2, key, [key |-> key, value |-> WrapValue(value),
                                   timestamp |-> t]),
        stats |-> s1.stats,
        events |-> CallHook(s1.events, "onSet", key, value,
                            IF isNewKey THEN "isUpdate=false" ELSE "isUpdate=true"),
        ret |-> "void"]

\* delete() that treats an expired entry as not stored
delete_LiveOnly(s, key) ==
    IF MapHas(s.cache, key) /\ ~IsExpired(MapGet(s.cache, key), now)
    THEN [cache |-> MapDelete(s.cache, key),
          stats |-> s.stats,
          events |-> CallHook(s.events, "onDelete", key,
                              unwrapValue(MapGet(s.cache, key).value), "delete"),
          ret |-> TRUE]
    ELSE [cache |-> s.cache, stats |-> s.stats, events |-> s.events, ret |-> FALSE]

delete(s, key) ==
    IF MapHas(s.cache, key)
    THEN [cache |-> MapDelete(s.cache, key),
          stats |-> s.stats,
          events |-> CallHook(s.events, "onDelete", key,
                              unwrapValue(MapGet(s.cache, key).value), "delete"),
          ret |-> TRUE]
    ELSE [cache |-> s.cache, stats |-> s.stats, events |-> s.events, ret |-> FALSE]

\* deleteAsync that leaves the removal to the continuation of its caller's
\* await: nothing is removed when the call returns
deleteAsync_Deferred(s, key) ==
    [cache |-> s.cache, stats |-> s.stats, events |-> s.events,
     ret |-> [promise |-> "pending", value |-> MapHas(s.cache, key)]]

\* deleteAsync(key) up to its return: the body has no await, so it has run
\* to its end when the call returns, and the promise returned is already
\* resolved with the boolean
deleteAsync(s, key) ==
    IF MapHas(s.cache, key)
    THEN [cache |-> MapDelete(s.cache, key),
          stats |-> s.stats,
          events |-> CallHook(s.events, "onDelete", key,
                              unwrapValue(MapGet(s.cache, key).value), "deleteAsync"),
          ret |-> [promise |-> "fulfilled", value |-> TRUE]]
    ELSE [cache |-> s.cache, stats |-> s.stats, events |-> s.events,
          ret |-> [promise |-> "fulfilled", value |-> FALSE]]

\* the hook calls of a loop that removes entries: one per removed entry, in
\* the Map's iteration order (deleting the current entry while iterating a
\* Map skips nothing)
HookEach(ev, removed, hook, source) ==
    ev \o [i \in 1..Len(removed) |->
             [hook |-> hook, key |-> removed[i].key,
              value |-> unwrapValue(removed[i].value), info |-> source]]

\* clear() that calls onDelete for the entries not older than ttl only
clear_LiveOnly(s) ==
    [cache |-> <<>>,
     stats |-> s.stats,
     events |-> HookEach(s.events,
                         SelectSeq(s.cache, LAMBDA e : ~IsExpired(e, now)),
                         "onDelete", "clear"),
     ret |-> "void"]

clear(s) ==
    [cache |-> <<>>,
     stats |-> s.stats,
     events |-> HookEach(s.events, s.cache, "onDelete", "clear"),
     ret |-> "void"]

\* String.prototype.includes in place of startsWith: the prefix anywhere in the key
StartsWith_Includes(key, prefix) ==
    \E d \in 0..Len(key) :
        /\ d + Len(prefix) <= Len(key)
        /\ \A i \in 1..Len(prefix) : key[d + i] = prefix[i]

\* String.prototype.startsWith
StartsWith(key, prefix) ==
    /\ Len(prefix) <= Len(key)
    /\ \A i \in 1..Len(prefix) : key[i] = prefix[i]

deleteByPrefix(s, prefix) ==
    LET removed == SelectSeq(s.cache, LAMBDA e : StartsWith(e.key, prefix)) IN
    [cache |-> SelectSeq(s.cache, LAMBDA e : ~StartsWith(e.key, prefix)),
     stats |-> s.stats,
     events |-> HookEach(s.events, removed, "onDelete", "deleteByPrefix"),
     ret |-> Len(removed)]

\* ---- the regular expression deleteByMagicString builds
\* the characters of the class [.+?^${}()|[\]\\]
RegexSpecial == {".", "+", "?", "^", "$", "{", "}", "(", ")", "|", "[", "]", "\\"}

\* the line terminators, which '.' does not match (the pattern has no s flag)
LineTerminators == {LF, "\r"}

\* .replace(/[.+?^${}()|[\]\\]/g, '\\$&'): a backslash before each special character
RECURSIVE EscapeSpecial(_)
EscapeSpecial(str) ==
    IF str = <<>> THEN <<>>
    ELSE (IF Head(str) \in RegexSpecial THEN <<"\\", Head(str)>> ELSE <<Head(str)>>)
         \o EscapeSpecial(Tail(str))

\* .replace(/\*/g, '.*'): each asterisk becomes dot, asterisk
RECURSIVE StarToDotStar(_)
StarToDotStar(str) ==
    IF str = <<>> THEN <<>>
    ELSE (IF Head(str) = "*" THEN <<".", "*">> ELSE <<Head(str)>>)
         \o StarToDotStar(Tail(str))

\* new RegExp(source): the source read as a sequence of atoms.  A backslash
\* makes the next character a literal, a dot followed by an asterisk is '.*',
\* a lone dot is '.', any other character is a literal.
RECURSIVE ParseRegex(_)
ParseRegex(src) ==
    IF src = <<>> THEN <<>>
    ELSE IF Head(src) = "\\" /\ Len(src) >= 2
         THEN <<[atom |-> "lit", c |-> src[2]]>> \o ParseRegex(Tail(Tail(src)))
    ELSE IF Head(src) = "." /\ Len(src) >= 2 /\ src[2] = "*"
         THEN <<[atom |-> "dotstar", c |-> "."]>> \o ParseRegex(Tail(Tail(src)))
    ELSE IF Head(src) = "."
         THEN <<[atom |-> "dot", c |-> "."]>> \o ParseRegex(Tail(src))
    ELSE <<[atom |-> "lit", c |-> Head(src)]>> \o ParseRegex(Tail(src))

\* whether the atoms match the whole of str (the expression is ^...$)
RECURSIVE RegexMatch(_, _)
RegexMatch(atoms, str) ==
    IF atoms = <<>> THEN str = <<>>
    ELSE LET a == Head(atoms) IN
         IF a.atom = "lit"
         THEN str # <<>> /\ Head(str) = a.c /\ RegexMatch(Tail(atoms), Tail(str))
         ELSE IF a.atom = "dot"
         THEN str # <<>> /\ Head(str) \notin LineTerminators
              /\ RegexMatch(Tail(atoms), Tail(str))
         ELSE \/ RegexMatch(Tail(atoms), str)
              \/ /\ str # <<>>
                 /\ Head(str) \notin LineTerminators
                 /\ RegexMatch(atoms, Tail(str))

\* regex.test(key) for the expression built from magicString
MagicTest(magicString, key) ==
    RegexMatch(ParseRegex(StarToDotStar(EscapeSpecial(magicString))), key)

deleteByMagicString(s, magicString) ==
    LET removed == SelectSeq(s.cache, LAMBDA e : MagicTest(magicString, e.key)) IN
    [cache |-> SelectSeq(s.cache, LAMBDA e : ~MagicTest(magicString, e.key)),
     stats |-> s.stats,
     events |-> HookEach(s.events, removed, "onDelete", "deleteByMagicString"),
     ret |-> Len(removed)]

\* prune() without its `if (this.ttl <= 0) return 0`
prune_NoTtlGuard(s, t) ==
    LET removed == SelectSeq(s.cache, LAMBDA e : t - e.timestamp > ttl) IN
    [cache |-> SelectSeq(s.cache, LAMBDA e : ~(t - e.timestamp > ttl)),
     stats |-> [s.stats EXCEPT !.expirations = @ + Len(removed)],
     events |-> HookEach(s.events, removed, "onExpire", "prune"),
     ret |-> Len(removed)]

prune(s, t) ==
    IF ttl <= 0
    THEN [cache |-> s.cache, stats |-> s.stats, events |-> s.events, ret |-> 0]
    ELSE LET removed == SelectSeq(s.cache, LAMBDA e : t - e.timestamp > ttl) IN
         [cache |-> SelectSeq(s.cache, LAMBDA e : ~(t - e.timestamp > ttl)),
          stats |-> [s.stats EXCEPT !.expirations = @ + Len(removed)],
          events |-> HookEach(s.events, removed, "onExpire", "prune"),
          ret |-> Len(removed)]

size(s, t) == [prune(s, t) EXCEPT !.ret = Len(prune(s, t).cache)]

\* keys() without the prune() it starts with
keys_NoPrune(s, t) ==
    [cache |-> s.cache, stats |-> s.stats, events |-> s.events, ret |-> MapKeys(s.cache)]

keys(s, t) == [prune(s, t) EXCEPT !.ret = MapKeys(prune(s, t).cache)]

values(s, t) ==
    [prune(s, t) EXCEPT
        !.ret = [i \in 1..Len(prune(s, t).cache) |-> unwrapValue(prune(s, t).cache[i].value)]]

entries(s, t) ==
    [prune(s, t) EXCEPT
        !.ret = [i \in 1..Len(prune(s, t).cache) |->
                    <<prune(s, t).cache[i].key, unwrapValue(prune(s, t).cache[i].value)>>]]

\* the counters are read before size() prunes
getStats(s, t) ==
    [prune(s, t) EXCEPT
        !.ret = [hits |-> s.stats.hits, misses |-> s.stats.misses,
                 evictions |-> s.stats.evictions, expirations |-> s.stats.expirations,
                 size |-> Len(prune(s, t).cache)]]

ZeroStats == [hits |-> 0, misses |-> 0, evictions |-> 0, expirations |-> 0]

\* resetStats() without `this.stats.expirations = 0`
resetStats_KeepExpirations(s) ==
    [cache |-> s.cache,
     stats |-> [ZeroStats EXCEPT !.expirations = s.stats.expirations],
     events |-> s.events, ret |-> "void"]

resetStats(s) ==
    [cache |-> s.cache, stats |-> ZeroStats, events |-> s.events, ret |-> "void"]

\* ------------------------------------------------------------ the machine
\* the engine state an operation starts from; no hook has been called yet
Engine == [cache |-> cache, stats |-> stats, events |-> <<>>]

NoValue == "none"

\* the in-flight registry as a Map
InFlightHas(m, k) == \E r \in m : r.key = k

InFlightGet(m, k) == (CHOOSE r \in m : r.key = k).promise

InFlightDelete(m, k) == {r \in m : r.key # k}

InFlightSet(m, k, p) == InFlightDelete(m, k) \cup {[key |-> k, promise |-> p]}

\* history: the recency order after an operation that used the keys in `used`
\* (a set, or a get/getOrSet returning the stored value) and left store c
LruAfter(c, used) ==
    LET kept == SelectSeq(lru, LAMBDA k : MapHas(c, k) /\ k \notin used)
        top == SelectSeq(MapKeys(c), LAMBDA k : k \in used)
    IN kept \o top

\* history: the value last written for each stored key, `wr` being the
\* <<key, value>> written by this operation (or <<>>)
WrittenAfter(c, wr) ==
    [k \in DOMAIN written |->
        IF ~MapHas(c, k) THEN NoValue
        ELSE IF wr # <<>> /\ wr[1] = k THEN wr[2]
        ELSE written[k]]

StatsTotal(st) == st.hits + st.misses + st.evictions + st.expirations

\* an operation's effect on the engine's variables and on the history
Commit(r, used, wr) ==
    /\ StatsTotal(r.stats) <= MaxStat
    /\ cache' = r.cache
    /\ stats' = r.stats
    /\ lru' = LruAfter(r.cache, used)
    /\ written' = WrittenAfter(r.cache, wr)

\* whether get(key) would return the stored value now
Live(key) == MapHas(cache, key) /\ ~IsExpired(MapGet(cache, key), now)

Sync == UNCHANGED <<maxSize, ttl, inFlight, now, fetches, env>>

Set(key, value) ==
    /\ Commit(set(Engine, key, value, now), {key}, <<key, value>>)
    /\ Sync

Get(key) ==
    /\ Commit(get(Engine, key, now), IF Live(key) THEN {key} ELSE {}, <<>>)
    /\ Sync

Has(key) ==
    /\ Commit(has(Engine, key, now), {}, <<>>)
    /\ Sync

Delete(key) ==
    /\ Commit(delete(Engine, key), {}, <<>>)
    /\ Sync

DeleteAsync(key) ==
    /\ Commit(deleteAsync(Engine, key), {}, <<>>)
    /\ Sync

Clear ==
    /\ Commit(clear(Engine), {}, <<>>)
    /\ Sync

DeleteByPrefix(prefix) ==
    /\ Commit(deleteByPrefix(Engine, prefix), {}, <<>>)
    /\ Sync

DeleteByMagicString(magicString) ==
    /\ Commit(deleteByMagicString(Engine, magicString), {}, <<>>)
    /\ Sync

Prune ==
    /\ Commit(prune(Engine, now), {}, <<>>)
    /\ Sync

\* size(), keys(), values(), entries() and getStats() act on the engine as the
\* prune() they start with
Introspect ==
    /\ \E op \in {"size", "keys", "values", "entries", "getStats"} :
           Commit(CASE op = "size" -> size(Engine, now)
                    [] op = "keys" -> keys(Engine, now)
                    [] op = "values" -> values(Engine, now)
                    [] op = "entries" -> entries(Engine, now)
                    [] op = "getStats" -> getStats(Engine, now),
                  {}, <<>>)
    /\ Sync

ResetStats ==
    /\ Commit(resetStats(Engine), {}, <<>>)
    /\ Sync

\* Date.now() advances between operations.  Timestamps are read by the TTL
\* test only, so the clock is left alone when ttl = 0.
Tick ==
    /\ ttl > 0
    /\ now < MaxTime
    /\ now' = now + 1
    /\ UNCHANGED <<maxSize, ttl, cache, stats, inFlight, fetches, env, lru, written>>

\* ---------------------------------------------------------------- getOrSet
\* A fetch is one invocation of a fetcher together with the promise of the
\* async block wrapped around it; `waiters` counts the getOrSet callers that
\* were handed the promise and have not resumed yet.  A fetch is kept while
\* something still refers to its promise: its fetcher has not settled, a
\* caller has not resumed, or the registry holds it.
FetchError == "error"

FetchOf(id) == CHOOSE f \in fetches : f.id = id

NewId == CHOOSE i \in 1..(Cardinality(fetches) + 1) :
             /\ \A f \in fetches : f.id # i
             /\ \A j \in 1..(i - 1) : \E f \in fetches : f.id = j

Referenced(fs, reg) ==
    {f \in fs : \/ f.status = "pending"
                \/ f.waiters > 0
                \/ \E r \in reg : r.promise = f.id}

\* history: the fetches for key whose fetcher was invoked and has not settled
Outstanding(key) ==
    {f.id : f \in {g \in fetches : g.key = key /\ g.status = "pending"}}

\* the callers that have not resumed
Waiting == LET ids == {f.id : f \in fetches}
               RECURSIVE Sum(_)
               Sum(S) == IF S = {} THEN 0
                         ELSE LET x == CHOOSE y \in S : TRUE
                              IN FetchOf(x).waiters + Sum(S \ {x})
           IN Sum(ids)

AddWaiter(fs, id) ==
    {IF f.id = id THEN [f EXCEPT !.waiters = @ + 1] ELSE f : f \in fs}

\* getOrSet whose joining call records a miss and calls onMiss like the
\* leading call
getOrSet_MissOnJoin(s, key, throws, t) ==
    LET h == has(s, key, t) IN
    IF h.ret
    THEN [get(h, key, t) EXCEPT !.ret = [path |-> "hit", promise |-> 0,
                                         value |-> get(h, key, t).ret,
                                         inFlight |-> inFlight, fetches |-> fetches]]
    ELSE IF InFlightHas(inFlight, key)
    THEN [cache |-> h.cache,
          stats |-> Bump(h.stats, "misses"),
          events |-> CallHook(h.events, "onMiss", key, "undefined", "not_found"),
          ret |-> [path |-> "join", promise |-> InFlightGet(inFlight, key),
                   value |-> NoValue,
                   inFlight |-> inFlight,
                   fetches |-> AddWaiter(fetches, InFlightGet(inFlight, key))]]
    ELSE [cache |-> h.cache,
          stats |-> Bump(h.stats, "misses"),
          events |-> CallHook(h.events, "onMiss", key, "undefined", "not_found"),
          ret |-> [path |-> "fetch", promise |-> NewId, value |-> NoValue,
                   inFlight |-> InFlightSet(
                       IF throws THEN InFlightDelete(inFlight, key) ELSE inFlight,
                       key, NewId),
                   fetches |-> fetches \cup
                       {[id |-> NewId, key |-> key, waiters |-> 1,
                         status |-> IF throws THEN "rejected" ELSE "pending",
                         value |-> IF throws THEN FetchError ELSE NoValue]}]]

\* getOrSet that does not look at the registry: every call that finds no
\* entry invokes its fetcher and registers its own promise
getOrSetAt_NoJoin(s, key, throws, t, t2) ==
    LET h == has(s, key, t) IN
    IF h.ret
    THEN [get(h, key, t2) EXCEPT !.ret = [path |-> "hit", promise |-> 0,
                                          value |-> get(h, key, t2).ret,
                                          inFlight |-> inFlight, fetches |-> fetches]]
    ELSE [cache |-> h.cache,
          stats |-> Bump(h.stats, "misses"),
          events |-> CallHook(h.events, "onMiss", key, "undefined", "not_found"),
          ret |-> [path |-> "fetch", promise |-> NewId, value |-> NoValue,
                   inFlight |-> InFlightSet(InFlightDelete(inFlight, key), key, NewId),
                   fetches |-> fetches \cup
                       {[id |-> NewId, key |-> key, waiters |-> 1,
                         status |-> IF throws THEN "rejected" ELSE "pending",
                         value |-> IF throws THEN FetchError ELSE NoValue]}]]

\* getOrSet(key, fetcher) up to its return, as a function of the state:
\* the engine state it leaves, the path it takes, the promise it returns,
\* the registry and the fetches.  `throws`: the fetcher throws when invoked
\* instead of returning a value or a promise.
getOrSetAt(s, key, throws, t, t2) ==
    LET h == has(s, key, t) IN
    IF h.ret
    THEN \* 1. the fast path: return this.get(key)
         [get(h, key, t2) EXCEPT !.ret = [path |-> "hit", promise |-> 0,
                                          value |-> get(h, key, t2).ret,
                                          inFlight |-> inFlight, fetches |-> fetches]]
    ELSE IF InFlightHas(inFlight, key)
    THEN \* 2. join the registered promise
         [h EXCEPT !.ret = [path |-> "join", promise |-> InFlightGet(inFlight, key),
                            value |-> NoValue,
                            inFlight |-> inFlight,
                            fetches |-> AddWaiter(fetches, InFlightGet(inFlight, key))]]
    ELSE \* 3. the async block runs to its await: the miss is counted, onMiss is
         \* called and the fetcher is invoked; a fetcher that throws ends the
         \* block through its finally; then the promise is registered
         [cache |-> h.cache,
          stats |-> Bump(h.stats, "misses"),
          events |-> CallHook(h.events, "onMiss", key, "undefined", "not_found"),
          ret |-> [path |-> "fetch", promise |-> NewId, value |-> NoValue,
                   inFlight |-> InFlightSet(
                       IF throws THEN InFlightDelete(inFlight, key) ELSE inFlight,
                       key, NewId),
                   fetches |-> fetches \cup
                       {[id |-> NewId, key |-> key, waiters |-> 1,
                         status |-> IF throws THEN "rejected" ELSE "pending",
                         value |-> IF throws THEN FetchError ELSE NoValue]}]]

\* getOrSet on its miss path at the moment `await fetcher()` invokes the
\* fetcher: the miss is counted and onMiss was called, and the async block has
\* not returned its promise yet, so that line 456 has not registered it
getOrSetAtFetcher(s, key, t) ==
    LET h == has(s, key, t) IN
    [cache |-> h.cache,
     stats |-> Bump(h.stats, "misses"),
     events |-> CallHook(h.events, "onMiss", key, "undefined", "not_found"),
     ret |-> [path |-> "fetch", promise |-> 0, value |-> NoValue,
              inFlight |-> inFlight, fetches |-> fetches]]

\* getOrSet(key, fetcher) when the clock does not move between the has() and
\* the get() of its fast path
getOrSet(s, key, throws, t) == getOrSetAt(s, key, throws, t, t)

\* the times a second Date.now() of one call can read
ClockAfter == {now} \cup (IF ttl > 0 /\ now < MaxTime THEN {now + 1} ELSE {})

GetOrSet(key, throws) ==
    \E t2 \in ClockAfter :
        LET r == getOrSetAt(Engine, key, throws, now, t2) IN
        /\ r.ret.path # "hit" => Waiting < MaxCalls /\ t2 = now
        /\ Commit(r, IF r.ret.path = "hit" /\ MapHas(r.cache, key) THEN {key} ELSE {},
                  <<>>)
        /\ inFlight' = r.ret.inFlight
        /\ fetches' = r.ret.fetches
        /\ now' = t2
        /\ UNCHANGED <<maxSize, ttl, env>>

Settle(id, status, value) ==
    {IF f.id = id THEN [f EXCEPT !.status = status, !.value = value] ELSE f : f \in fetches}

\* the awaited fetcher result is a value: set(key, value), then the finally
\* block unregisters the key and the promise is fulfilled
FetchResolve(id, value) ==
    /\ \E f \in fetches : f.id = id /\ f.status = "pending"
    /\ Commit(set(Engine, FetchOf(id).key, value, now),
              {FetchOf(id).key}, <<FetchOf(id).key, value>>)
    /\ inFlight' = InFlightDelete(inFlight, FetchOf(id).key)
    /\ fetches' = Settle(id, "fulfilled", value)
    /\ UNCHANGED <<maxSize, ttl, now, env>>

\* the awaited fetcher result fails: the finally block unregisters the key
\* and the promise is rejected with that failure
FetchReject(id) ==
    /\ \E f \in fetches : f.id = id /\ f.status = "pending"
    /\ inFlight' = InFlightDelete(inFlight, FetchOf(id).key)
    /\ fetches' = Settle(id, "rejected", FetchError)
    /\ UNCHANGED <<maxSize, ttl, cache, stats, now, env, lru, written>>

\* the promise a caller was handed has settled: the caller's await resumes
\* with that outcome
CallSettle(id) ==
    /\ \E f \in fetches : f.id = id /\ f.status # "pending" /\ f.waiters > 0
    /\ fetches' = Referenced(
           {IF f.id = id THEN [f EXCEPT !.waiters = @ - 1] ELSE f : f \in fetches},
           inFlight)
    /\ UNCHANGED <<maxSize, ttl, cache, stats, inFlight, now, env, lru, written>>

\* --------------------------------------------------------- specifications
\* keys of the runs
Keys == {EmptyKey, <<"a">>, <<"b">>}

TwoKeys == {EmptyKey, <<"a">>}

\* keys and patterns of the pattern-deletion run
PatKeys == {EmptyKey, <<"a">>, <<"a", "b">>, <<"a", ".", "b">>, <<"a", LF>>}

Patterns == {<<>>, <<"*">>, <<"a">>, <<"a", "*">>, <<"a", ".", "b">>, <<"*", "b">>}

Prefixes == {<<>>, <<"a">>, <<"a", "b">>, <<"b">>}

AllKeys == Keys \cup PatKeys

\* the runs of the engine specification: the constructor options and the
\* inputs the callers draw from
Runs ==
    {[maxSize |-> 2, ttl |-> 0, keys |-> Keys, values |-> {"v"}, throws |-> {FALSE}],
     [maxSize |-> 1, ttl |-> 1, keys |-> TwoKeys, values |-> {"v"}, throws |-> {FALSE}],
     [maxSize |-> 1, ttl |-> 0, keys |-> TwoKeys, values |-> {"v"}, throws |-> BOOLEAN],
     [maxSize |-> 0, ttl |-> 1, keys |-> {<<"a">>}, values |-> Values, throws |-> {FALSE}]}

InitWith(run) ==
    /\ maxSize = run.maxSize
    /\ ttl = run.ttl
    /\ cache = <<>>
    /\ stats = ZeroStats
    /\ inFlight = {}
    /\ now = 0
    /\ fetches = {}
    /\ env = [keys |-> run.keys, values |-> run.values, throws |-> run.throws]
    /\ lru = <<>>
    /\ written = [k \in AllKeys |-> NoValue]

Init == \E run \in Runs : InitWith(run)

Next ==
    \/ \E k \in env.keys, v \in env.values : Set(k, v)
    \/ \E k \in env.keys : Get(k)
    \/ \E k \in env.keys : Has(k)
    \/ \E k \in env.keys : Delete(k)
    \/ \E k \in env.keys : DeleteAsync(k)
    \/ Clear
    \/ \E p \in {<<>>, <<"a">>} : DeleteByPrefix(p)
    \/ \E p \in {<<>>, <<"*">>} : DeleteByMagicString(p)
    \/ Prune
    \/ Introspect
    \/ ResetStats
    \/ Tick
    \/ \E k \in env.keys, throws \in env.throws : GetOrSet(k, throws)
    \/ \E f \in fetches, v \in env.values : FetchResolve(f.id, v)
    \/ \E f \in fetches : FetchReject(f.id)
    \/ \E f \in fetches : CallSettle(f.id)

Spec == Init /\ [][Next]_vars

\* the pattern-deletion specification: an unbounded store without expiry over
\* keys with wildcard, regular-expression and line-terminator characters
InitPattern ==
    InitWith([maxSize |-> 0, ttl |-> 0, keys |-> PatKeys, values |-> {"v"},
              throws |-> {FALSE}])

NextPattern ==
    \/ \E k \in env.keys, v \in env.values : Set(k, v)
    \/ \E k \in env.keys : Get(k)
    \/ \E k \in env.keys : Delete(k)
    \/ Clear
    \/ \E p \in Prefixes : DeleteByPrefix(p)
    \/ \E p \in Patterns : DeleteByMagicString(p)

SpecPattern == InitPattern /\ [][NextPattern]_vars

\* the expiry specification: an unbounded store of two keys, with ttl = 0
\* (entries never expire) or ttl = 1, under a clock that advances whatever
\* ttl is
Elapse ==
    /\ now < MaxTime
    /\ now' = now + 1
    /\ UNCHANGED <<maxSize, ttl, cache, stats, inFlight, fetches, env, lru, written>>

InitPrune ==
    \E t \in {0, 1} :
        InitWith([maxSize |-> 0, ttl |-> t, keys |-> TwoKeys, values |-> {"v"},
                  throws |-> {FALSE}])

NextPrune ==
    \/ \E k \in env.keys, v \in env.values : Set(k, v)
    \/ \E k \in env.keys : Get(k)
    \/ \E k \in env.keys : Has(k)
    \/ Prune
    \/ Introspect
    \/ ResetStats
    \/ Elapse

SpecPrune == InitPrune /\ [][NextPrune]_vars

\* ------------------------------------------------------------ construction
\* An option is <<>> when it is omitted and <<n>> when it is given as n.
DefaultMaxSize == 100

DefaultTtl == 5 * 60 * 1000

\* `option ?? fallback`
OrElse(option, fallback) == IF option = <<>> THEN fallback ELSE option[1]

NoError == [name |-> "", message |-> ""]

CacheConfigError(message) == [name |-> "CacheConfigError", message |-> message]

\* the constructor without its test of ttl
constructor_NoTtlCheck(options) ==
    LET m == OrElse(options.maxSize, DefaultMaxSize)
        t == OrElse(options.ttl, DefaultTtl)
    IN  IF m < 0
        THEN [error |-> CacheConfigError("maxSize must be a non-negative number"),
              maxSize |-> 0, ttl |-> 0]
        ELSE [error |-> NoError, maxSize |-> m, ttl |-> t]

\* new MemoryCache(options): the error thrown, or the fields assigned (the
\* fields of a result with an error are not assigned and mean nothing)
constructor(options) ==
    LET m == OrElse(options.maxSize, DefaultMaxSize)
        t == OrElse(options.ttl, DefaultTtl)
    IN  IF m < 0
        THEN [error |-> CacheConfigError("maxSize must be a non-negative number"),
              maxSize |-> 0, ttl |-> 0]
        ELSE IF t < 0
        THEN [error |-> CacheConfigError("ttl must be a non-negative number"),
              maxSize |-> 0, ttl |-> 0]
        ELSE [error |-> NoError, maxSize |-> m, ttl |-> t]

OptionValues == {<<>>, <<-2>>, <<-1>>, <<0>>, <<1>>}

\* the construction specification starts before `new`: env.options are the
\* options of the call and env.instance tells what the call produced ("none"
\* before it, "MemoryCache" or "CacheConfigError" after it); maxSize and ttl
\* mean nothing until an instance exists
InitConstruct ==
    \E m \in OptionValues, t \in OptionValues :
        /\ maxSize = 0
        /\ ttl = 0
        /\ cache = <<>>
        /\ stats = ZeroStats
        /\ inFlight = {}
        /\ now = 0
        /\ fetches = {}
        /\ env = [keys |-> TwoKeys, values |-> {"v"}, throws |-> {FALSE},
                  options |-> [maxSize |-> m, ttl |-> t], instance |-> "none"]
        /\ lru = <<>>
        /\ written = [k \in AllKeys |-> NoValue]

Construct ==
    /\ env.instance = "none"
    /\ LET r == constructor(env.options) IN
       IF r.error # NoError
       THEN /\ env' = [env EXCEPT !.instance = r.error.name]
            /\ UNCHANGED <<maxSize, ttl>>
       ELSE /\ env' = [env EXCEPT !.instance = "MemoryCache"]
            /\ maxSize' = r.maxSize
            /\ ttl' = r.ttl
    /\ UNCHANGED <<cache, stats, inFlight, now, fetches, lru, written>>

NextConstruct ==
    \/ Construct
    \/ env.instance = "MemoryCache" /\ \E k \in env.keys, v \in env.values : Set(k, v)
    \/ env.instance = "MemoryCache" /\ \E k \in env.keys : Get(k)
    \/ env.instance = "MemoryCache" /\ Tick

SpecConstruct == InitConstruct /\ [][NextConstruct]_vars

\* ------------------------------------------------- the memoizing wrapper
\* Strings are sequences of one-character strings; an argument list is a
\* sequence of strings.

RECURSIVE Concat(_)
\* the concatenation of a sequence of strings
Concat(parts) ==
    IF parts = <<>> THEN <<>> ELSE Head(parts) \o Concat(Tail(parts))

\* JSON.stringify of one character of a string
JsonChar(c) ==
    IF c = "\"" THEN <<"\\", "\"">>
    ELSE IF c = "\\" THEN <<"\\", "\\">>
    ELSE IF c = LF THEN <<"\\", "n">>
    ELSE <<c>>

\* JSON.stringify of a string
JsonString(str) ==
    <<"\"">> \o Concat([i \in 1..Len(str) |-> JsonChar(str[i])]) \o <<"\"">>

\* JSON.stringify(args) of an argument list of strings
JSONstringify(args) ==
    <<"[">> \o
    Concat([i \in 1..Len(args) |->
               (IF i > 1 THEN <<",">> ELSE <<>>) \o JsonString(args[i])]) \o
    <<"]">>

\* String.prototype.charCodeAt for the characters of the model
charCodeAt(c) ==
    CASE c = LF -> 10
      [] c = "\"" -> 34
      [] c = "," -> 44
      [] c = "." -> 46
      [] c = ":" -> 58
      [] c = "[" -> 91
      [] c = "\\" -> 92
      [] c = "]" -> 93
      [] c = "a" -> 97
      [] c = "b" -> 98
      [] c = "n" -> 110

RECURSIVE Xor(_, _)
\* x ^ y of two non-negative integers
Xor(x, y) ==
    IF x = 0 THEN y
    ELSE IF y = 0 THEN x
    ELSE (((x % 2) + (y % 2)) % 2) + 2 * Xor(x \div 2, y \div 2)

\* A 32-bit hash is kept as <<high 16 bits, low 16 bits>>, so that no
\* intermediate product exceeds 31 bits.
\* hash = 0x811c9dc5
FnvOffsetBasis == <<33052, 40389>>

\* hash ^= code; hash = Math.imul(hash, 0x01000193): the low 32 bits of the
\* product with 2^24 + 403
FnvStep(hash, code) ==
    LET lo == Xor(hash[2], code)
        hi == hash[1]
    IN  <<((hi * 403) + ((lo * 403) \div 65536) + ((lo % 256) * 256)) % 65536,
          (lo * 403) % 65536>>

RECURSIVE FnvLoop(_, _)
FnvLoop(hash, str) ==
    IF str = <<>> THEN hash
    ELSE FnvLoop(FnvStep(hash, charCodeAt(Head(str))), Tail(str))

HexDigit(d) == <<"0", "1", "2", "3", "4", "5", "6", "7", "8", "9",
                 "a", "b", "c", "d", "e", "f">>[d + 1]

\* the four hexadecimal digits of a 16-bit number
Hex16(n) ==
    <<HexDigit(n \div 4096), HexDigit((n \div 256) % 16),
      HexDigit((n \div 16) % 16), HexDigit(n % 16)>>

RECURSIVE StripZeros(_)
\* Number.prototype.toString(16) writes no leading zero
StripZeros(digits) ==
    IF Len(digits) > 1 /\ Head(digits) = "0" THEN StripZeros(Tail(digits))
    ELSE digits

\* fnv1aHash(str) == (hash >>> 0).toString(16)
fnv1aHash(str) ==
    LET hash == FnvLoop(FnvOffsetBasis, str) IN
    StripZeros(Hex16(hash[1]) \o Hex16(hash[2]))

\* a promise returned by an async method that rejects later; the wrapper
\* handles it as any other value
RejectedPromise == "Promise(rejected)"

\* The key generators of the model: "first" is (args) => args[0], and
\* "throws" is the same function except that it throws unless it is given
\* exactly one argument.
keyGeneratorThrows(mode, args) == mode = "throws" /\ Len(args) # 1

\* what a key generator returns; the undefined of args[0], for an empty
\* argument list, is written 'undefined' by the template literal
keyGenerator(mode, args) ==
    IF args = <<>> THEN <<"u", "n", "d", "e", "f", "i", "n", "e", "d">>
    ELSE args[1]

\* the argument part of the key with hashKeys tested before keyGenerator
argKey_HashFirst(mode, hashKeys, args) ==
    IF hashKeys THEN fnv1aHash(JSONstringify(args))
    ELSE IF mode # "none" THEN keyGenerator(mode, args)
    ELSE JSONstringify(args)

\* the argument part of the key: mode is "none" when no keyGenerator is
\* configured (a keyGenerator that throws is dealt with by the caller)
argKey(mode, hashKeys, args) ==
    IF mode # "none" THEN keyGenerator(mode, args)
    ELSE IF hashKeys THEN fnv1aHash(JSONstringify(args))
    ELSE JSONstringify(args)

\* `${propertyKey}:${argKey}`
composedKey(propertyKey, mode, hashKeys, args) ==
    propertyKey \o <<":">> \o argKey(mode, hashKeys, args)

\* the wrapper that does not store a promise that rejects
cachedCall_SkipRejected(s, propertyKey, self, args, outcome, t, t2) ==
    IF keyGeneratorThrows(env.keyGenerator, args)
    THEN [cache |-> s.cache, stats |-> s.stats, events |-> s.events,
          ret |-> [path |-> "keyError", error |-> "KeyGeneratorError",
                   value |-> NoValue, key |-> <<>>, invoked |-> <<>>]]
    ELSE
    LET key == composedKey(propertyKey, env.keyGenerator, env.hashKeys, args)
        h == has(s, key, t)
        call == <<[propertyKey |-> propertyKey, self |-> self, args |-> args]>>
    IN  IF h.ret
        THEN [get(h, key, t2) EXCEPT
                 !.ret = [path |-> "cached", error |-> "",
                          value |-> get(h, key, t2).ret, key |-> key,
                          invoked |-> <<>>]]
        ELSE IF outcome.throws
        THEN [h EXCEPT
                 !.ret = [path |-> "threw", error |-> "MethodError",
                          value |-> NoValue, key |-> key, invoked |-> call]]
        ELSE IF outcome.value = RejectedPromise
        THEN [h EXCEPT
                 !.ret = [path |-> "stored", error |-> "",
                          value |-> outcome.value, key |-> key, invoked |-> call]]
        ELSE [set(h, key, outcome.value, t2) EXCEPT
                 !.ret = [path |-> "stored", error |-> "",
                          value |-> outcome.value, key |-> key, invoked |-> call]]

\* the wrapper with the original method invoked before the key is derived
cachedCall_InvokeFirst(s, propertyKey, self, args, outcome, t, t2) ==
    LET call == <<[propertyKey |-> propertyKey, self |-> self, args |-> args]>> IN
    IF keyGeneratorThrows(env.keyGenerator, args)
    THEN [cache |-> s.cache, stats |-> s.stats, events |-> s.events,
          ret |-> [path |-> "keyError", error |-> "KeyGeneratorError",
                   value |-> NoValue, key |-> <<>>, invoked |-> call]]
    ELSE
    LET key == composedKey(propertyKey, env.keyGenerator, env.hashKeys, args)
        h == has(s, key, t)
    IN  IF h.ret
        THEN [get(h, key, t2) EXCEPT
                 !.ret = [path |-> "cached", error |-> "",
                          value |-> get(h, key, t2).ret, key |-> key,
                          invoked |-> call]]
        ELSE IF outcome.throws
        THEN [h EXCEPT
                 !.ret = [path |-> "threw", error |-> "MethodError",
                          value |-> NoValue, key |-> key, invoked |-> call]]
        ELSE [set(h, key, outcome.value, t2) EXCEPT
                 !.ret = [path |-> "stored", error |-> "",
                          value |-> outcome.value, key |-> key, invoked |-> call]]

\* One call of a decorated method, up to its return: propertyKey names the
\* method the decorator was applied to, self is the object it is called on,
\* outcome is what the original method does if it is invoked, t is the time
\* has() reads and t2 the time the get() or set() after it reads.  The result
\* carries the invocations of the original method and the way taken.
cachedCall(s, propertyKey, self, args, outcome, t, t2) ==
    IF keyGeneratorThrows(env.keyGenerator, args)
    THEN [cache |-> s.cache, stats |-> s.stats, events |-> s.events,
          ret |-> [path |-> "keyError", error |-> "KeyGeneratorError",
                   value |-> NoValue, key |-> <<>>, invoked |-> <<>>]]
    ELSE
    LET key == composedKey(propertyKey, env.keyGenerator, env.hashKeys, args)
        h == has(s, key, t)
        call == <<[propertyKey |-> propertyKey, self |-> self, args |-> args]>>
    IN  IF h.ret
        THEN [get(h, key, t2) EXCEPT
                 !.ret = [path |-> "cached", error |-> "",
                          value |-> get(h, key, t2).ret, key |-> key,
                          invoked |-> <<>>]]
        ELSE IF outcome.throws
        THEN [h EXCEPT
                 !.ret = [path |-> "threw", error |-> "MethodError",
                          value |-> NoValue, key |-> key, invoked |-> call]]
        ELSE [set(h, key, outcome.value, t2) EXCEPT
                 !.ret = [path |-> "stored", error |-> "",
                          value |-> outcome.value, key |-> key, invoked |-> call]]

Outcomes == [throws : env.throws, value : env.values]

Call(propertyKey, self, args, outcome) ==
    \E t2 \in ClockAfter :
        LET r == cachedCall(Engine, propertyKey, self, args, outcome, now, t2) IN
        /\ Commit(r,
                  IF r.ret.path = "stored" \/ (r.ret.path = "cached" /\ MapHas(r.cache, r.ret.key))
                  THEN {r.ret.key} ELSE {},
                  IF r.ret.path = "stored" THEN <<r.ret.key, r.ret.value>> ELSE <<>>)
        /\ now' = t2
        /\ UNCHANGED <<maxSize, ttl, inFlight, fetches, env>>

\* the objects the decorated methods are called on
Instances == {"instance1", "instance2"}

\* values a decorated method returns: the falsy ones, a string and a promise
CachedValues == {"undefined", "null", "false", "0", "", "v", RejectedPromise}

\* the runs of the wrapper specification: the options of one cached(options)
\* call, the methods the decorator it returns is applied to, and the
\* arguments and the outcomes of the calls
CachedRuns ==
    {[maxSize |-> 0, ttl |-> 0, methods |-> {<<"a">>}, args |-> {<<>>, <<<<"a">>>>},
      values |-> CachedValues \ {RejectedPromise}, throws |-> {FALSE},
      keyGenerator |-> "none", hashKeys |-> FALSE],
     [maxSize |-> 0, ttl |-> 1, methods |-> {<<"a">>}, args |-> {<<>>, <<<<"a">>>>},
      values |-> {"v", RejectedPromise}, throws |-> BOOLEAN,
      keyGenerator |-> "none", hashKeys |-> FALSE],
     [maxSize |-> 1, ttl |-> 0, methods |-> {<<"a">>, <<"b">>}, args |-> {<<<<"a">>>>},
      values |-> {"v", "null"}, throws |-> {FALSE},
      keyGenerator |-> "none", hashKeys |-> FALSE]}
    \cup
    {[maxSize |-> 2, ttl |-> 0, methods |-> {<<"a">>},
      args |-> {<<<<"a">>>>, <<<<"a">>, <<"b">>>>, <<<<"a", LF>>>>},
      values |-> {"v"}, throws |-> BOOLEAN,
      keyGenerator |-> g, hashKeys |-> h] :
        g \in {"none", "first", "throws"}, h \in BOOLEAN}

CachedKeys(run) ==
    {composedKey(p, run.keyGenerator, run.hashKeys, a) :
         p \in run.methods,
         a \in {x \in run.args : ~keyGeneratorThrows(run.keyGenerator, x)}}

InitCached ==
    \E run \in CachedRuns :
        /\ maxSize = run.maxSize
        /\ ttl = run.ttl
        /\ cache = <<>>
        /\ stats = ZeroStats
        /\ inFlight = {}
        /\ now = 0
        /\ fetches = {}
        /\ env = [keys |-> CachedKeys(run), values |-> run.values,
                  throws |-> run.throws, methods |-> run.methods,
                  args |-> run.args, keyGenerator |-> run.keyGenerator,
                  hashKeys |-> run.hashKeys]
        /\ lru = <<>>
        /\ written = [k \in CachedKeys(run) |-> NoValue]

NextCached ==
    \/ \E p \in env.methods, self \in Instances, a \in env.args, o \in Outcomes :
           Call(p, self, a, o)
    \/ Tick

SpecCached == InitCached /\ [][NextCached]_vars

\* ------------------------------------------------- the callers of getOrSet
\* The specification of the callers: every getOrSet call is kept, with the
\* promise it awaits, in env.calls until its await resumes; env.issued
\* numbers the calls.  Promise 0 is the promise of a call that took the fast
\* path, fulfilled when the call returns.
MaxIssued == 3

\* a fetch whose promise has settled: the await of a caller holding it
\* resumes, with the value or with the failure
Settled_FulfilledOnly(f) == f.status = "fulfilled"

Settled(f) == f.status # "pending"

InitLive ==
    /\ maxSize = 1
    /\ ttl = 0
    /\ cache = <<>>
    /\ stats = ZeroStats
    /\ inFlight = {}
    /\ now = 0
    /\ fetches = {}
    /\ env = [keys |-> TwoKeys, values |-> {"v"}, throws |-> BOOLEAN,
              calls |-> {}, issued |-> 0]
    /\ lru = <<>>
    /\ written = [k \in AllKeys |-> NoValue]

\* a caller issues getOrSet(key, fetcher) and awaits the promise it returns
GetOrSetCall(key, throws) ==
    \E t2 \in ClockAfter :
        LET r == getOrSetAt(Engine, key, throws, now, t2) IN
        /\ env.issued < MaxIssued
        /\ r.ret.path # "hit" => t2 = now
        /\ Commit(r, IF r.ret.path = "hit" /\ MapHas(r.cache, key) THEN {key} ELSE {},
                  <<>>)
        /\ inFlight' = r.ret.inFlight
        /\ fetches' = r.ret.fetches
        /\ now' = t2
        /\ env' = [env EXCEPT !.issued = @ + 1,
                              !.calls = @ \cup {[call |-> env.issued + 1,
                                                 promise |-> r.ret.promise]}]
        /\ UNCHANGED <<maxSize, ttl>>

\* whether the await of a call can resume
Resumable(c) ==
    \/ c.promise = 0
    \/ \E f \in fetches : f.id = c.promise /\ Settled(f) /\ f.waiters > 0

\* the await of call number n resumes
Resume(n) ==
    \E c \in env.calls :
        /\ c.call = n
        /\ Resumable(c)
        /\ fetches' = Referenced(
               {IF f.id = c.promise THEN [f EXCEPT !.waiters = @ - 1] ELSE f :
                    f \in fetches},
               inFlight)
        /\ env' = [env EXCEPT !.calls = @ \ {c}]
        /\ UNCHANGED <<maxSize, ttl, cache, stats, inFlight, now, lru, written>>

\* the fetcher of fetch id settles, one way or the other
FetchSettle(id) ==
    \/ \E v \in env.values : FetchResolve(id, v)
    \/ FetchReject(id)

NextLive ==
    \/ \E k \in env.keys, throws \in env.throws : GetOrSetCall(k, throws)
    \/ \E f \in fetches : FetchSettle(f.id)
    \/ \E n \in 1..MaxIssued : Resume(n)
    \/ \E k \in env.keys, v \in env.values : Set(k, v)
    \/ \E k \in env.keys : Delete(k)
    \/ Clear

\* every invoked fetcher eventually settles (the premise of the liveness of
\* getOrSet), and the job queue runs the continuation of an await whose
\* promise has settled
SpecLive ==
    /\ InitLive
    /\ [][NextLive]_vars
    /\ \A id \in 1..MaxIssued : WF_vars(FetchSettle(id))
    /\ \A n \in 1..MaxIssued : WF_vars(Resume(n))

\* ------------------------------------------------------- the hashed keys
\* The specification of the key derivation with hashKeys: a decorated
\* method is called with an argument list of strings and the wrapper
\* derives the argument part of the key; env.args is the argument list and
\* env.argKey the part derived, once env.derived is true.
MaxArgs == 2

\* the strings passed as arguments
HashStrings ==
    {<<>>, <<"a">>, <<"b">>, <<"a", "a">>, <<"a", LF>>, <<"a", ".", "b">>,
     <<"a", ":", "b">>}

HashArgs == UNION {[1..n -> HashStrings] : n \in 0..MaxArgs}

InitHash ==
    /\ maxSize = DefaultMaxSize
    /\ ttl = DefaultTtl
    /\ cache = <<>>
    /\ stats = ZeroStats
    /\ inFlight = {}
    /\ now = 0
    /\ fetches = {}
    /\ \E a \in HashArgs :
           env = [keys |-> {}, values |-> {}, throws |-> {FALSE},
                  args |-> a, derived |-> FALSE, argKey |-> <<>>]
    /\ lru = <<>>
    /\ written = [k \in AllKeys |-> NoValue]

\* the wrapper derives argKey: no keyGenerator, hashKeys true
DeriveKey ==
    /\ ~env.derived
    /\ env' = [env EXCEPT !.derived = TRUE,
                          !.argKey = argKey("none", TRUE, env.args)]
    /\ UNCHANGED <<maxSize, ttl, cache, stats, inFlight, now, fetches, lru, written>>

NextHash == DeriveKey

SpecHash == InitHash /\ [][NextHash]_vars

\* ------------------------------------------------------------------ claims
\* the fetcher invocations a getOrSet for `key` would make: the ids of the
\* fetches it adds to those that exist
Invoked(key, throws) ==
    {f.id : f \in getOrSet(Engine, key, throws, now).ret.fetches}
        \ {f.id : f \in fetches}

\* C1 (as claimed): single-flight.  In every state and for every key k absent
\* from the store, a getOrSet(k, fetcher) issued now invokes the fetcher
\* exactly once when no fetch for k is outstanding, and otherwise invokes
\* nothing and is handed the promise of the one outstanding fetch, so that
\* the callers of one miss share one invocation and its outcome.
C1_SingleFlight ==
    \A k \in env.keys, throws \in env.throws :
        ~MapHas(cache, k) =>
            LET r == getOrSet(Engine, k, throws, now).ret IN
            /\ Cardinality(Outstanding(k)) <= 1
            /\ IF Outstanding(k) = {}
               THEN /\ r.path = "fetch"
                    /\ Cardinality(Invoked(k, throws)) = 1
                    /\ r.promise \in Invoked(k, throws)
               ELSE /\ r.path = "join"
                    /\ Invoked(k, throws) = {}
                    /\ r.promise \in Outstanding(k)

\* C2 (as claimed): fetcher failure.  A fetcher that throws when invoked
\* leaves the store as has() left it, calls no onSet and hands the caller a
\* rejected promise; and after a fetch for k has failed, a getOrSet(k, f2)
\* that finds no entry and no outstanding fetch invokes f2.
C2_FetcherFailure ==
    /\ \A k \in env.keys :
           LET h == has(Engine, k, now)
               r == getOrSet(Engine, k, TRUE, now)
           IN r.ret.path = "fetch" =>
                  /\ r.cache = h.cache
                  /\ \A i \in 1..Len(r.events) : r.events[i].hook # "onSet"
                  /\ \E f \in r.ret.fetches :
                         f.id = r.ret.promise /\ f.status = "rejected"
    /\ \A f \in fetches, throws \in env.throws :
           (f.status = "rejected" /\ ~Live(f.key) /\ Outstanding(f.key) = {}) =>
               /\ getOrSet(Engine, f.key, throws, now).ret.path = "fetch"
               /\ getOrSet(Engine, f.key, throws, now).ret.promise # f.id

\* C3 (as claimed): the registry holds an entry for k only while a fetch for k
\* is outstanding.
C3_RegistryOnlyOutstanding ==
    \A r \in inFlight :
        /\ FetchOf(r.promise).key = r.key
        /\ FetchOf(r.promise).status = "pending"

C5_CapacityBound ==
    /\ maxSize > 0 => Len(cache) <= maxSize
    /\ maxSize = 0 => stats.evictions = 0

\* C6: for ttl > 0, an entry of age <= ttl is returned by get and reported by
\* has; an entry of age > ttl is removed by get, which returns undefined and
\* records one expiration and one miss, is not reported by has, and is what
\* prune removes.
C6_TtlBoundary ==
    ttl > 0 =>
        \A i \in 1..Len(cache) :
            LET e == cache[i]
                g == get(Engine, e.key, now)
                h == has(Engine, e.key, now)
                p == prune(Engine, now)
            IN IF now <= e.timestamp + ttl
               THEN /\ g.ret = unwrapValue(e.value)
                    /\ MapHas(g.cache, e.key)
                    /\ g.stats = Bump(stats, "hits")
                    /\ h.ret = TRUE
                    /\ MapHas(p.cache, e.key)
               ELSE /\ g.ret = "undefined"
                    /\ ~MapHas(g.cache, e.key)
                    /\ g.stats = Bump(Bump(stats, "expirations"), "misses")
                    /\ h.ret = FALSE
                    /\ ~MapHas(h.cache, e.key)
                    /\ ~MapHas(p.cache, e.key)

\* C6 witness: an entry of age exactly ttl is stored, after a get has found
\* another entry expired
C6_Witness ==
    /\ ttl > 0
    /\ stats.expirations >= 1
    /\ \E i \in 1..Len(cache) :
           /\ now = cache[i].timestamp + ttl
           /\ get(Engine, cache[i].key, now).ret = "v"

\* C7: while the entry written by set(k, v) is stored and not expired, has(k)
\* is true and get(k) returns v itself (null as null, undefined as
\* undefined), counts one hit and calls onHit with v; for a key that is not
\* stored (one never set in particular) has is false and get counts one miss.
C7_PresenceVsValue ==
    \A k \in env.keys :
        LET g == get(Engine, k, now)
            h == has(Engine, k, now)
        IN IF Live(k)
           THEN /\ h.ret = TRUE
                /\ written[k] \in env.values
                /\ g.ret = written[k]
                /\ g.stats = Bump(stats, "hits")
                /\ g.events = <<[hook |-> "onHit", key |-> k,
                                 value |-> written[k], info |-> ""]>>
           ELSE ~MapHas(cache, k) =>
                /\ h.ret = FALSE
                /\ g.ret = "undefined"
                /\ g.stats = Bump(stats, "misses")

\* C7 witness: null is stored, has been read by a get, and is read as null
C7_Witness ==
    /\ stats.hits >= 1
    /\ Live(<<"a">>)
    /\ written[<<"a">>] = "null"
    /\ get(Engine, <<"a">>, now).ret = "null"

\* wildcard semantics: * matches any run of characters, every other
\* character matches itself, and the pattern matches the whole key
RECURSIVE WildMatch(_, _)
WildMatch(pattern, key) ==
    IF pattern = <<>> THEN key = <<>>
    ELSE IF Head(pattern) = "*"
         THEN \/ WildMatch(Tail(pattern), key)
              \/ key # <<>> /\ WildMatch(pattern, Tail(key))
         ELSE key # <<>> /\ Head(key) = Head(pattern)
              /\ WildMatch(Tail(pattern), Tail(key))

\* what a bulk deletion must do given the set of keys it is to remove: keep
\* the other entries as they were and in their order, call onDelete once per
\* removed entry with the given source, and return the number removed
RemovesExactly(r, doomed, source) ==
    /\ r.cache = SelectSeq(cache, LAMBDA e : e.key \notin doomed)
    /\ r.ret = Cardinality({i \in 1..Len(cache) : cache[i].key \in doomed})
    /\ Len(r.events) = r.ret
    /\ \A i \in 1..Len(r.events) :
           /\ r.events[i].hook = "onDelete"
           /\ r.events[i].info = source
           /\ r.events[i].key \in doomed
           /\ MapHas(cache, r.events[i].key)
           /\ r.events[i].value = unwrapValue(MapGet(cache, r.events[i].key).value)
    /\ \A i, j \in 1..Len(r.events) : r.events[i].key = r.events[j].key => i = j

\* C8 (as claimed): deleteByMagicString(p) removes exactly the stored keys
\* that match p under wildcard semantics, calls onDelete once per removed
\* entry and returns their number.
C8_MagicString ==
    \A p \in Patterns :
        RemovesExactly(deleteByMagicString(Engine, p),
                       {k \in env.keys : WildMatch(p, k)}, "deleteByMagicString")

\* C9 (as claimed): deleteByMagicString('') removes nothing, calls no hook
\* and returns 0.
C9_EmptyPattern ==
    LET r == deleteByMagicString(Engine, <<>>) IN
    /\ r.cache = cache
    /\ r.events = <<>>
    /\ r.ret = 0

\* the key begins with the characters of the prefix
IsPrefixOf(prefix, key) ==
    Len(prefix) <= Len(key) /\ SubSeq(key, 1, Len(prefix)) = prefix

\* C10: deleteByPrefix(p) removes exactly the stored keys that start with p
\* (all of them when p is empty), keeps the others in their order, calls
\* onDelete with source deleteByPrefix once per removed entry and returns
\* the number removed.
C10_DeleteByPrefix ==
    \A p \in Prefixes :
        RemovesExactly(deleteByPrefix(Engine, p),
                       {k \in env.keys : IsPrefixOf(p, k)}, "deleteByPrefix")

\* C10 witness: of three stored entries the prefix 'a' removes two and leaves
\* the entry of the empty key, and the empty prefix removes all three
C10_Witness ==
    /\ Len(cache) = 3
    /\ MapHas(cache, EmptyKey)
    /\ deleteByPrefix(Engine, <<"a">>).ret = 2
    /\ MapKeys(deleteByPrefix(Engine, <<"a">>).cache) = <<EmptyKey>>
    /\ deleteByPrefix(Engine, <<>>).ret = 3

\* ------------------------------------------------------ exceptions of hooks
\* the hooks a cache is constructed with: none at all, or six hooks (onHit,
\* onMiss, onSet, onDelete, onEvict, onExpire) that throw on every call
HookModes == {"none", "throw"}

\* callHook without its try/catch: what the hook throws leaves callHook
callHook_NoCatch(mode) ==
    IF mode = "none" THEN "skipped" ELSE "thrown"

\* callHook(hook, context), by the way the call ends: `if (!hook) return`
\* skips an absent hook, and the try/catch discards what a hook throws
callHook(mode) ==
    IF mode = "none" THEN "skipped" ELSE "caught"

\* the operations of the engine by name, on uniform arguments
OpNames ==
    {"get", "has", "set", "delete", "clear", "deleteByPrefix", "deleteByMagicString",
     "prune", "size", "keys", "values", "entries", "getStats", "resetStats"}

Apply(op, s, key, value, pattern, t) ==
    CASE op = "get" -> get(s, key, t)
      [] op = "has" -> has(s, key, t)
      [] op = "set" -> set(s, key, value, t)
      [] op = "delete" -> delete(s, key)
      [] op = "clear" -> clear(s)
      [] op = "deleteByPrefix" -> deleteByPrefix(s, pattern)
      [] op = "deleteByMagicString" -> deleteByMagicString(s, pattern)
      [] op = "prune" -> prune(s, t)
      [] op = "size" -> size(s, t)
      [] op = "keys" -> keys(s, t)
      [] op = "values" -> values(s, t)
      [] op = "entries" -> entries(s, t)
      [] op = "getStats" -> getStats(s, t)
      [] op = "resetStats" -> resetStats(s)

\* The point an operation has reached when it makes its first callHook call:
\* the statements before the call have run, those after it have not.
\*  - get, has, delete call their hooks after their last change of state;
\*  - set calls onEvict after removing the victim and before storing;
\*  - clear calls onDelete for each entry before it empties the store;
\*  - the loops of deleteByPrefix, deleteByMagicString and prune call the
\*    hook right after removing the first entry they remove.
AtFirstHook(op, s, key, value, pattern, t) ==
    LET r == Apply(op, s, key, value, pattern, t)
        first == r.events[Len(s.events) + 1]
        removedFirst == [r EXCEPT !.cache = MapDelete(s.cache, first.key)]
    IN IF Len(r.events) = Len(s.events) THEN r
       ELSE CASE op = "set" ->
                     IF first.hook = "onEvict"
                     THEN [r EXCEPT !.cache = Evict(s).cache]
                     ELSE r
              [] op = "clear" -> [r EXCEPT !.cache = s.cache]
              [] op \in {"deleteByPrefix", "deleteByMagicString"} -> removedFirst
              [] op \in {"prune", "size", "keys", "values", "entries", "getStats"} ->
                     [removedFirst EXCEPT !.stats = Bump(s.stats, "expirations")]
              [] OTHER -> r

\* An operation on a cache with hooks of the given mode: r is what it does
\* when every callHook call returns, cut is where it stands at its first
\* callHook call.  An exception that leaves callHook leaves the operation
\* there and makes it fail.
Under(mode, r, cut) ==
    IF Len(r.events) > 0 /\ callHook(mode) = "thrown"
    THEN [cache |-> cut.cache, stats |-> cut.stats, ret |-> cut.ret, failed |-> TRUE]
    ELSE [cache |-> r.cache, stats |-> r.stats, ret |-> r.ret, failed |-> FALSE]

\* getOrSet at its first callHook call: the onExpire of has() and the onHit
\* of get() are called from the body of getOrSet itself; onMiss is called
\* inside the try of the async block, whose finally unregisters the key
\* before the block's promise, already rejected, is registered
getOrSetAtFirstHook(s, key, throws, t) ==
    LET h == has(s, key, t)
        r == getOrSet(s, key, throws, t)
    IN IF Len(h.events) > Len(s.events)
       THEN [r EXCEPT !.cache = h.cache, !.stats = h.stats,
                      !.ret.inFlight = inFlight, !.ret.fetches = fetches]
       ELSE IF r.ret.path = "fetch"
       THEN getOrSet(s, key, TRUE, t)
       ELSE r

C12_UpdateNotEvict ==
    \A k \in env.keys, v \in env.values :
        MapHas(cache, k) =>
            LET r == set(Engine, k, v, now) IN
            /\ Len(r.cache) = Len(cache)
            /\ \A i \in 1..Len(cache) :
                   /\ MapHas(r.cache, cache[i].key)
                   /\ cache[i].key # k => MapGet(r.cache, cache[i].key) = cache[i]
            /\ r.stats = stats
            /\ r.events = <<[hook |-> "onSet", key |-> k, value |-> v,
                             info |-> "isUpdate=true"]>>
            /\ MapGet(r.cache, k).value = WrapValue(v)
            /\ unwrapValue(MapGet(r.cache, k).value) = v
            /\ MapGet(r.cache, k).timestamp = now

\* C12 witness: a store that is full (maxSize entries) and holds an entry
\* written before now, on which a set changes the timestamp
C12_Witness ==
    /\ maxSize > 0
    /\ Len(cache) = maxSize
    /\ \E i \in 1..Len(cache) :
           /\ cache[i].timestamp < now
           /\ MapGet(set(Engine, cache[i].key, "v", now).cache, cache[i].key).timestamp = now
           /\ Len(set(Engine, cache[i].key, "v", now).cache) = maxSize

\* what an operation that leaves the counters st adds to each counter
Delta(st) ==
    [hits |-> st.hits - stats.hits, misses |-> st.misses - stats.misses,
     evictions |-> st.evictions - stats.evictions,
     expirations |-> st.expirations - stats.expirations]

\* the entries of the store that are not in store c
Gone(c) == {i \in 1..Len(cache) : ~MapHas(c, cache[i].key)}

\* C13, the operations: a get that returns the stored value adds 1 to hits
\* and nothing else; a get of an absent key adds 1 to misses and nothing
\* else; a get of an expired entry adds 1 to misses and 1 to expirations and
\* nothing else; a set adds to evictions the number of entries it evicts and
\* nothing else; a getOrSet adds 1 to hits and nothing else on its fast
\* path, 1 to misses and nothing else when it starts a fetch, and nothing
\* when it joins.
C13_Operations ==
    /\ \A k \in env.keys :
           Delta(get(Engine, k, now).stats) =
               IF ~MapHas(cache, k)
               THEN [hits |-> 0, misses |-> 1, evictions |-> 0, expirations |-> 0]
               ELSE IF ttl > 0 /\ now - MapGet(cache, k).timestamp > ttl
               THEN [hits |-> 0, misses |-> 1, evictions |-> 0, expirations |-> 1]
               ELSE [hits |-> 1, misses |-> 0, evictions |-> 0, expirations |-> 0]
    /\ \A k \in env.keys, v \in env.values :
           LET r == set(Engine, k, v, now) IN
           /\ Delta(r.stats) =
                  [hits |-> 0, misses |-> 0, evictions |-> Cardinality(Gone(r.cache)),
                   expirations |-> 0]
           /\ Cardinality(Gone(r.cache)) =
                  Cardinality({i \in 1..Len(r.events) : r.events[i].hook = "onEvict"})
    /\ \A k \in env.keys, throws \in env.throws :
           LET r == getOrSet(Engine, k, throws, now) IN
           Delta(r.stats) =
               CASE r.ret.path = "hit" ->
                        [hits |-> 1, misses |-> 0, evictions |-> 0, expirations |-> 0]
                 [] r.ret.path = "fetch" ->
                        [hits |-> 0, misses |-> 1, evictions |-> 0, expirations |-> 0]
                 [] r.ret.path = "join" ->
                        [hits |-> 0, misses |-> 0, evictions |-> 0, expirations |-> 0]

Expired(ev) == Cardinality({i \in 1..Len(ev) : ev[i].hook = "onExpire"})

\* C14 (as claimed): the expirations counter counts every entry removed
\* because its age exceeds ttl.  Whichever operation finds the expiry (get,
\* has, getOrSet, prune, size, keys, values, entries, getStats), it adds to
\* expirations the number of entries it removes as expired, which is the
\* number of onExpire calls it makes; the counter then equals the number of
\* onExpire events since construction or the last resetStats.
C14_ExpirationsCounted ==
    /\ \A op \in {"get", "has", "prune", "size", "keys", "values", "entries", "getStats"},
          k \in env.keys :
           LET r == Apply(op, Engine, k, "v", <<>>, now) IN
           /\ r.stats.expirations - stats.expirations = Expired(r.events)
           /\ Expired(r.events) = Cardinality(Gone(r.cache))
    /\ \A k \in env.keys, throws \in env.throws :
           LET r == getOrSet(Engine, k, throws, now) IN
           /\ r.stats.expirations - stats.expirations = Expired(r.events)
           /\ Expired(r.events) = Cardinality(Gone(r.cache))

\* the leading call of a miss: it stores nothing (every entry it leaves is an
\* entry that was there, unchanged, and it calls no onSet), records one miss
\* and calls onMiss once
LeadingCall(r) ==
    /\ \A i \in 1..Len(r.cache) :
           MapHas(cache, r.cache[i].key) /\ MapGet(cache, r.cache[i].key) = r.cache[i]
    /\ \A i \in 1..Len(r.events) : r.events[i].hook # "onSet"
    /\ r.stats.misses = stats.misses + 1
    /\ Cardinality({i \in 1..Len(r.events) : r.events[i].hook = "onMiss"}) = 1

Present == SelectSeq(cache, LAMBDA e : has(Engine, e.key, now).ret)

\* C16: size(), keys(), values(), entries() and getStats().size report
\* exactly the entries for which has() is true now, in the order of the
\* store: no entry older than ttl, every other entry; size() is the length
\* of the three lists, and the values are the values that were set
\* (undefined and null as such).
C16_NoStaleReports ==
    /\ \A i \in 1..Len(Present) :
           ~(ttl > 0 /\ now - Present[i].timestamp > ttl)
    /\ \A i \in 1..Len(cache) :
           (ttl > 0 /\ now - cache[i].timestamp > ttl) =>
               \A j \in 1..Len(Present) : Present[j].key # cache[i].key
    /\ keys(Engine, now).ret = MapKeys(Present)
    /\ values(Engine, now).ret = [i \in 1..Len(Present) |-> written[Present[i].key]]
    /\ entries(Engine, now).ret =
           [i \in 1..Len(Present) |-> <<Present[i].key, written[Present[i].key]>>]
    /\ size(Engine, now).ret = Len(Present)
    /\ getStats(Engine, now).ret.size = Len(Present)
    /\ Len(keys(Engine, now).ret) = size(Engine, now).ret
    /\ Len(values(Engine, now).ret) = size(Engine, now).ret
    /\ Len(entries(Engine, now).ret) = size(Engine, now).ret
    /\ \A i \in 1..Len(Present) : written[Present[i].key] \in env.values

\* C16 witness: the store holds an entry older than ttl, which keys() does
\* not list and size() does not count
C16_Witness ==
    /\ ttl > 0
    /\ \E i \in 1..Len(cache) :
           /\ now - cache[i].timestamp > ttl
           /\ \A j \in 1..Len(keys(Engine, now).ret) :
                  keys(Engine, now).ret[j] # cache[i].key
    /\ size(Engine, now).ret < Len(cache)

\* the entries of the store whose age exceeds ttl, in the order of the store
Aged == SelectSeq(cache, LAMBDA e : now - e.timestamp > ttl)

\* C17: prune().  With ttl > 0 it removes the entries whose age exceeds ttl
\* and no others, adds their number to expirations and leaves the other
\* counters alone, calls onExpire with source prune once for each removed
\* entry, with its value, and returns their number.  With ttl = 0 it removes
\* nothing, calls nothing and returns 0, and no operation treats an entry as
\* expired, whatever its age: get returns the stored value, has is true, the
\* introspection methods report every entry, no onExpire is called and
\* expirations does not move.
C17_Prune ==
    LET r == prune(Engine, now) IN
    /\ ttl > 0 =>
           /\ r.cache = SelectSeq(cache, LAMBDA e : now - e.timestamp <= ttl)
           /\ r.ret = Len(Aged)
           /\ r.stats.expirations = stats.expirations + Len(Aged)
           /\ r.stats.hits = stats.hits
           /\ r.stats.misses = stats.misses
           /\ r.stats.evictions = stats.evictions
           /\ r.events = [i \in 1..Len(Aged) |->
                             [hook |-> "onExpire", key |-> Aged[i].key,
                              value |-> written[Aged[i].key], info |-> "prune"]]
    /\ ttl = 0 =>
           /\ r.cache = cache
           /\ r.ret = 0
           /\ r.stats = stats
           /\ r.events = <<>>
           /\ \A op \in OpNames \ {"set", "delete", "clear", "deleteByPrefix",
                                   "deleteByMagicString", "resetStats"},
                 k \in env.keys :
                  LET o == Apply(op, Engine, k, "v", <<>>, now) IN
                  /\ Expired(o.events) = 0
                  /\ o.stats.expirations = stats.expirations
                  /\ Gone(o.cache) = {}
           /\ \A i \in 1..Len(cache) :
                  /\ has(Engine, cache[i].key, now).ret = TRUE
                  /\ get(Engine, cache[i].key, now).ret = written[cache[i].key]
           /\ keys(Engine, now).ret = MapKeys(cache)

\* C17 witness, ttl > 0: after a prune that removed an entry, the store holds
\* an entry older than ttl and a younger one, and prune removes the one
C17_Witness ==
    /\ ttl > 0
    /\ stats.expirations >= 1
    /\ Len(cache) = 2
    /\ prune(Engine, now).ret = 1
    /\ Len(prune(Engine, now).cache) = 1

\* C17 witness, ttl = 0: the store holds an entry of age 2
C17_WitnessNoTtl ==
    /\ ttl = 0
    /\ \E i \in 1..Len(cache) : now - cache[i].timestamp = 2

\* whether an entry is stored under the key and its age does not exceed ttl
Fresh(k) ==
    \E i \in 1..Len(cache) :
        cache[i].key = k /\ (ttl = 0 \/ now - cache[i].timestamp <= ttl)

\* whether no entry is stored under the key
Absent(k) == \A i \in 1..Len(cache) : cache[i].key # k

\* C18, the result of has in a state: for a key that is stored and not
\* expired it returns true, for a key that is not stored it returns false, and
\* in both cases the entries, their order and timestamps and the counters are
\* as before and no hook is called
C18_HasResult ==
    \A k \in AllKeys :
        LET r == has(Engine, k, now) IN
        /\ Fresh(k) => r.ret = TRUE /\ r.cache = cache /\ r.stats = stats
                       /\ r.events = <<>>
        /\ Absent(k) => r.ret = FALSE /\ r.cache = cache /\ r.stats = stats
                        /\ r.events = <<>>

\* C18: has(k) of a present, unexpired key returns true and of an absent key
\* returns false, and either call changes nothing: no entry, order,
\* timestamp, counter or registry record changes and no hook is called
C18_HasFrame ==
    /\ []C18_HasResult
    /\ [][\A k \in AllKeys :
              (Has(k) /\ (Fresh(k) \/ Absent(k))) =>
                  UNCHANGED <<cache, stats, inFlight, fetches, lru, written>>]_vars

\* C18 witness: with ttl > 0 and a fetch registered, has is true of an entry
\* whose timestamp is in the past and false of a key that is not stored
C18_Witness ==
    /\ ttl > 0
    /\ inFlight # {}
    /\ Len(cache) >= 1
    /\ cache[1].timestamp < now
    /\ has(Engine, cache[1].key, now).ret = TRUE
    /\ \E k \in env.keys : Absent(k) /\ has(Engine, k, now).ret = FALSE

\* whether an option is given and negative
Negative(option) == option # <<>> /\ option[1] < 0

\* C19: construction fails with a CacheConfigError, and produces no
\* instance, exactly when maxSize or ttl is given negative, so that a
\* maxSize or a ttl of 0 is accepted; the instance has the given maxSize, or
\* 100 when it is omitted, and the given ttl, or 300000 when it is omitted
C19_Constructor ==
    LET o == env.options
        r == constructor(o)
        bad == Negative(o.maxSize) \/ Negative(o.ttl)
    IN  /\ bad => r.error.name = "CacheConfigError"
        /\ ~bad => /\ r.error = NoError
                   /\ r.maxSize = IF o.maxSize = <<>> THEN 100 ELSE o.maxSize[1]
                   /\ r.ttl = IF o.ttl = <<>> THEN 300000 ELSE o.ttl[1]
        /\ env.instance = "CacheConfigError" => bad
        /\ env.instance = "MemoryCache" =>
               /\ ~bad
               /\ maxSize = (IF o.maxSize = <<>> THEN 100 ELSE o.maxSize[1])
               /\ ttl = (IF o.ttl = <<>> THEN 300000 ELSE o.ttl[1])
        /\ bad => env.instance # "MemoryCache" /\ cache = <<>>

\* C19 witness, failure: a construction with ttl 0 and a negative maxSize
\* has thrown
C19_WitnessThrown ==
    /\ env.instance = "CacheConfigError"
    /\ env.options.maxSize = <<-1>>
    /\ env.options.ttl = <<0>>

\* C19 witness: a cache constructed with maxSize 0 and ttl omitted holds two
\* entries, with ttl 300000
C19_Witness ==
    /\ env.instance = "MemoryCache"
    /\ env.options.maxSize = <<0>>
    /\ env.options.ttl = <<>>
    /\ ttl = 300000
    /\ Len(cache) = 2

\* C20, the result of delete in a state.  When an entry is stored under k,
\* expired or not, delete(k) returns true, removes that entry and leaves the
\* others as they are, in their order, and calls onDelete once, with k, the
\* value last set and source delete, and calls no other hook; when none is
\* stored it returns false, leaves the store as it is and calls no hook.  The
\* counters do not change, and a second delete(k) returns false.
C20_DeleteResult ==
    \A k \in AllKeys :
        LET r == delete(Engine, k)
            again == delete([cache |-> r.cache, stats |-> r.stats, events |-> <<>>], k)
        IN  /\ ~Absent(k) =>
                   /\ r.ret = TRUE
                   /\ r.cache = SelectSeq(cache, LAMBDA e : e.key # k)
                   /\ r.events = <<[hook |-> "onDelete", key |-> k,
                                    value |-> written[k], info |-> "delete"]>>
            /\ Absent(k) =>
                   /\ r.ret = FALSE
                   /\ r.cache = cache
                   /\ r.events = <<>>
            /\ r.stats = stats
            /\ again.ret = FALSE
            /\ again.cache = r.cache
            /\ again.events = <<>>

\* C20: delete(k) returns true and removes the entry when one is stored,
\* with exactly one onDelete of source delete, and returns false and changes
\* nothing when none is, with no onDelete; no other entry, no counter and no
\* registry record changes, and a second delete(k) in a row returns false
C20_Delete ==
    /\ []C20_DeleteResult
    /\ [][\A k \in AllKeys :
              Delete(k) =>
                  /\ UNCHANGED <<stats, inFlight, fetches>>
                  /\ cache' = SelectSeq(cache, LAMBDA e : e.key # k)
                  /\ delete([cache |-> cache', stats |-> stats', events |-> <<>>], k).ret
                         = FALSE]_vars

\* C20 witness: with a fetch registered and a counter moved, an entry older
\* than ttl is stored under k, delete(k) removes it, and another key is not
\* stored
C20_Witness ==
    /\ inFlight # {}
    /\ stats # ZeroStats
    /\ ttl > 0
    /\ \E i \in 1..Len(cache) :
           /\ now - cache[i].timestamp > ttl
           /\ delete(Engine, cache[i].key).ret = TRUE
           /\ Len(delete(Engine, cache[i].key).cache) = Len(cache) - 1
    /\ \E k \in env.keys : Absent(k) /\ delete(Engine, k).ret = FALSE

\* ------------------------------------------------------------ claims 21-30
\* the calls of a decorated method that can be made in a state: the method,
\* the object, the arguments, the outcome of the original method and the
\* time the second clock read of the call returns
CallInputs ==
    {in \in [p : env.methods, self : Instances, a : env.args, o : Outcomes,
             t2 : ClockAfter] : ~keyGeneratorThrows(env.keyGenerator, in.a)}

CallOf(in) == cachedCall(Engine, in.p, in.self, in.a, in.o, now, in.t2)

KeyOf(in) == composedKey(in.p, env.keyGenerator, env.hashKeys, in.a)

\* C21, for the call `in`: when has(key) is true the call returns the value
\* last stored under the key and does not invoke the original method; when it
\* is false the original method is invoked once, and either its result is
\* stored under the key and returned, or it throws, the error propagates,
\* nothing is stored under the key and the same call made next invokes the
\* method again
MemoizedCall(in) ==
    LET r == CallOf(in)
        key == KeyOf(in)
        after == [cache |-> r.cache, stats |-> r.stats, events |-> <<>>]
    IN  IF has(Engine, key, now).ret
        THEN /\ r.ret.invoked = <<>>
             /\ r.ret.error = ""
             /\ r.ret.value = written[key]
        ELSE /\ Len(r.ret.invoked) = 1
             /\ ~in.o.throws =>
                    /\ r.ret.error = ""
                    /\ r.ret.value = in.o.value
                    /\ MapHas(r.cache, key)
                    /\ get(after, key, in.t2).ret = in.o.value
             /\ in.o.throws =>
                    /\ r.ret.error = "MethodError"
                    /\ ~MapHas(r.cache, key)
                    /\ Len(cachedCall(after, in.p, in.self, in.a, in.o,
                                      in.t2, in.t2).ret.invoked) = 1

\* C21 (as claimed): a call whose composed key is present (has is true)
\* returns the cached value without invoking the wrapped function, whatever
\* the value (undefined, null, false, 0 and '' included); a call whose key is
\* absent invokes the function exactly once, stores the result and returns
\* it; if the function throws, nothing is stored, the error propagates and
\* the next call with the same arguments invokes it again
C21_Memoized == \A in \in CallInputs : MemoizedCall(in)

\* C21 without the clock moving inside a call: the same statement for the
\* calls whose two clock reads return the same time
C21_MemoizedSameClock == \A in \in CallInputs : in.t2 = now => MemoizedCall(in)

\* C21, the failing case: has() finds the entry of age ttl present, the clock
\* moves, and get() finds it expired
C21_ClockRace ==
    \E in \in CallInputs :
        /\ has(Engine, KeyOf(in), now).ret
        /\ written[KeyOf(in)] = "v"
        /\ CallOf(in).ret.value = "undefined"
        /\ CallOf(in).ret.invoked = <<>>

\* C22: when the configured keyGenerator throws, the error propagates to the
\* caller, the wrapped function is not invoked, and the wrapper's cache is
\* left as it was: its entries, their order and timestamps, its counters, and
\* no hook is called
C22_KeyError ==
    \A p \in env.methods, self \in Instances, a \in env.args, o \in Outcomes,
       t2 \in ClockAfter :
        keyGeneratorThrows(env.keyGenerator, a) =>
            LET r == cachedCall(Engine, p, self, a, o, now, t2) IN
            /\ r.ret.error = "KeyGeneratorError"
            /\ r.ret.invoked = <<>>
            /\ r.cache = cache
            /\ r.stats = stats
            /\ r.events = <<>>

\* C22 witness: the cache of a wrapper whose keyGenerator throws for some
\* argument lists holds an entry and has counted a hit
C22_Witness ==
    /\ env.keyGenerator = "throws"
    /\ \E a \in env.args : keyGeneratorThrows(env.keyGenerator, a)
    /\ Len(cache) >= 1
    /\ stats.hits >= 1

\* the keys of the entries of the decorated method p
KeysOf(p) ==
    {composedKey(p, env.keyGenerator, env.hashKeys, a) :
         a \in {x \in env.args : ~keyGeneratorThrows(env.keyGenerator, x)}}

\* the entries of the cache c that belong to other decorated methods than p
OthersOf(p, c) == SelectSeq(c, LAMBDA e : e.key \notin KeysOf(p))

\* C23, first half: the calls of one decorated method share one cache
\* whatever object they are made on: when the key is present the call returns
\* the value stored, by a call on whichever object, and invokes nothing, and
\* the calls on two objects leave the same cache and return the same
\* (the two clock reads of the call returning the same time)
C23_SharedAcrossInstances ==
    \A in \in CallInputs :
        in.t2 = now =>
            /\ has(Engine, KeyOf(in), now).ret =>
                   CallOf(in).ret.invoked = <<>> /\ CallOf(in).ret.value = written[KeyOf(in)]
            /\ \A other \in Instances :
                   LET r == CallOf(in)
                       q == CallOf([in EXCEPT !.self = other])
                   IN  /\ q.cache = r.cache
                       /\ q.stats = r.stats
                       /\ q.ret.value = r.ret.value

\* C23 (as claimed): all calls to one decorated method, from whichever
\* object, share one cache, and a call to one decorated method leaves the
\* entries of every other decorated method as they are: it adds none,
\* promotes none and evicts none
C23_Ownership ==
    /\ C23_SharedAcrossInstances
    /\ \A in \in CallInputs :
           in.t2 = now => OthersOf(in.p, CallOf(in).cache) = OthersOf(in.p, cache)

\* C23, the failing case: the decorator returned by one cached({maxSize: 1})
\* call was applied to two methods, and a call of one evicts the entry of
\* the other
C23_CrossEviction ==
    \E in \in CallInputs :
        /\ Cardinality(env.methods) = 2
        /\ OthersOf(in.p, cache) # <<>>
        /\ OthersOf(in.p, CallOf(in).cache) = <<>>
        /\ CallOf(in).stats.evictions = stats.evictions + 1

\* the timestamp of the entry of k in the store c
StampOf(c, k) == c[CHOOSE i \in 1..Len(c) : c[i].key = k].timestamp

\* whether the entry of k, if c still holds one, has the timestamp it has in
\* the store now
SameStamp(c, k) ==
    (\E i \in 1..Len(c) : c[i].key = k) => StampOf(c, k) = StampOf(cache, k)

\* C24, the operations in a state: for a stored key, set gives the entry the
\* current time as its timestamp, whatever it was; get, has and getOrSet
\* leave the timestamp as it is; and at every time later than the timestamp
\* plus ttl the entry is expired: has is false, get returns undefined and
\* getOrSet does not return from the store
C24_Stamps ==
    \A i \in 1..Len(cache) :
        LET k == cache[i].key
            ts == cache[i].timestamp
        IN  /\ \A v \in env.values : StampOf(set(Engine, k, v, now).cache, k) = now
            /\ SameStamp(get(Engine, k, now).cache, k)
            /\ SameStamp(has(Engine, k, now).cache, k)
            /\ \A throws \in env.throws, t2 \in ClockAfter :
                   SameStamp(getOrSetAt(Engine, k, throws, now, t2).cache, k)
            /\ ttl > 0 =>
                   \A t \in (ts + ttl + 1)..(MaxTime + 1) :
                       /\ t >= now =>
                              /\ has(Engine, k, t).ret = FALSE
                              /\ get(Engine, k, t).ret = "undefined"
                              /\ getOrSet(Engine, k, FALSE, t).ret.path # "hit"

\* C24: TTL is measured from the last write.  set on an existing key resets
\* the timestamp to the current time; get, has and getOrSet hits never change
\* a timestamp: the timestamp of an entry that stays stored changes only in a
\* step that writes the key (a set, or the set of a fetch that resolves) and
\* then becomes the current time; so an entry last written at t is expired at
\* every time > t + ttl however often it was read
C24_TtlFromLastWrite ==
    /\ []C24_Stamps
    /\ [][\A k \in env.keys :
              ((\E i \in 1..Len(cache) : cache[i].key = k)
               /\ (\E i \in 1..Len(cache') : cache'[i].key = k)
               /\ StampOf(cache', k) # StampOf(cache, k))
              => /\ StampOf(cache', k) = now
                 /\ \/ \E v \in env.values : Set(k, v)
                    \/ \E f \in fetches, v \in env.values :
                           f.key = k /\ FetchResolve(f.id, v)]_vars

\* C24 witness: with ttl > 0, an entry written before now has been read
\* (it is the most recently used of the store and a hit is counted), is not
\* yet expired and keeps its timestamp
C24_Witness ==
    /\ ttl > 0
    /\ stats.hits >= 1
    /\ Len(cache) >= 1
    /\ cache[Len(cache)].timestamp < now
    /\ has(Engine, cache[Len(cache)].key, now).ret = TRUE
    /\ lru # <<>>
    /\ lru[Len(lru)] = cache[Len(cache)].key

\* C25, resetStats in a state: the four counters become 0, the entries, their
\* order and their timestamps stay, no hook is called, size() returns what it
\* returned, and a get or a set made next moves the counters from 0 by what
\* it would have added to them
C25_ResetResult ==
    LET r == resetStats(Engine)
        after == [cache |-> r.cache, stats |-> r.stats, events |-> <<>>]
    IN  /\ r.stats.hits = 0
        /\ r.stats.misses = 0
        /\ r.stats.evictions = 0
        /\ r.stats.expirations = 0
        /\ r.cache = cache
        /\ r.events = <<>>
        /\ size(after, now).ret = size(Engine, now).ret
        /\ \A k \in env.keys, c \in {"hits", "misses", "evictions", "expirations"} :
               /\ get(after, k, now).stats[c] = get(Engine, k, now).stats[c] - stats[c]
               /\ set(after, k, "v", now).stats[c]
                      = set(Engine, k, "v", now).stats[c] - stats[c]

\* C25: resetStats() sets the four counters to 0 and leaves everything else:
\* the entries, their order and timestamps, the registry and what size()
\* returns; the counters accumulate from 0 afterwards
C25_ResetStats ==
    /\ []C25_ResetResult
    /\ [][ResetStats =>
              /\ stats' = [hits |-> 0, misses |-> 0, evictions |-> 0, expirations |-> 0]
              /\ UNCHANGED <<cache, inFlight, fetches, now, maxSize, ttl>>]_vars

\* C25 witness: the counters have reached their bound, with entries stored
\* and a fetch registered, and resetStats zeroes them
C25_Witness ==
    /\ stats.hits >= 1
    /\ stats.expirations >= 1
    /\ Len(cache) >= 1
    /\ inFlight # {}
    /\ resetStats(Engine).stats # stats

\* C26, for the call getOrSet(k, f) whose has() reads the current time and
\* whose get() reads t2: f is invoked if and only if has(k) is false and no
\* fetch for k is outstanding; when has(k) is true the call returns the
\* value stored, counts one hit and nothing else, calls onHit and nothing
\* else, and leaves the store as get(k) leaves it, k promoted; when the
\* entry of k is expired and no fetch is outstanding, f is invoked
FastPath(k, throws, t2) ==
    LET r == getOrSetAt(Engine, k, throws, now, t2)
        present == has(Engine, k, now).ret
        invoked == r.ret.path = "fetch"
    IN  /\ invoked <=> (~present /\ Outstanding(k) = {})
        /\ present =>
               /\ r.ret.value = written[k]
               /\ r.stats = [stats EXCEPT !.hits = @ + 1]
               /\ r.events = <<[hook |-> "onHit", key |-> k, value |-> written[k],
                                info |-> ""]>>
               /\ r.cache = get(Engine, k, now).cache
               /\ r.cache[Len(r.cache)].key = k
        /\ (\E i \in 1..Len(cache) :
                cache[i].key = k /\ ttl > 0 /\ now - cache[i].timestamp > ttl)
           /\ Outstanding(k) = {}
           => invoked

\* C26 (as claimed): getOrSet(k, f) invokes f if and only if has(k) is false
\* at the call and no fetch for k is outstanding; when has(k) is true it
\* returns the stored value without invoking f, records one hit, fires onHit
\* and promotes k as get does; an expired entry is a miss and f is invoked
C26_FastPath ==
    \A k \in env.keys, throws \in env.throws, t2 \in ClockAfter :
        FastPath(k, throws, t2)

\* C26 where neither fault is in play: the clock does not move inside the
\* call and the registry holds no promise of a fetcher that threw
C26_FastPathElsewhere ==
    \A k \in env.keys, throws \in env.throws :
        (\A r \in inFlight : FetchOf(r.promise).status = "pending")
            => FastPath(k, throws, now)

\* C26, first failing case: the registry still holds the rejected promise of
\* a fetcher that threw, no fetch for k is outstanding, has(k) is false, and
\* getOrSet(k, f) hands out that promise without invoking f
C26_StaleRegistry ==
    \E k \in env.keys :
        /\ ~has(Engine, k, now).ret
        /\ Outstanding(k) = {}
        /\ getOrSet(Engine, k, FALSE, now).ret.path = "join"

\* C26, second failing case: has(k) is true, the clock moves before get(k)
\* reads it, and the call returns undefined with a miss and an expiration
\* counted, f not invoked
C26_ClockRace ==
    \E k \in env.keys, t2 \in ClockAfter :
        LET r == getOrSetAt(Engine, k, FALSE, now, t2) IN
        /\ has(Engine, k, now).ret
        /\ written[k] = "v"
        /\ r.ret.path = "hit"
        /\ r.ret.value = "undefined"
        /\ r.stats.misses = stats.misses + 1

\* C27, a pending fetch in a state: its promise is the one registered for
\* its key, and the set its success makes stores the value under the key
\* whatever the store holds, so that get returns it
C27_Completion ==
    \A f \in fetches :
        f.status = "pending" =>
            /\ [key |-> f.key, promise |-> f.id] \in inFlight
            /\ \A v \in env.values :
                   LET r == set(Engine, f.key, v, now) IN
                   get([cache |-> r.cache, stats |-> r.stats, events |-> <<>>],
                       f.key, now).ret = v

\* C27: no cancellation.  No step of the cache aborts a fetch in flight: a
\* pending fetch stays pending, with all the callers that joined it, through
\* every step (a delete or a set of its key and a clear included) but the
\* settling of its own fetcher; and when the fetcher succeeds with v, v is
\* stored under the key, replacing what was written meanwhile, and the
\* promise every joined caller holds is fulfilled with v
C27_NoCancellation ==
    /\ []C27_Completion
    /\ [][\A f \in fetches :
              f.status = "pending" =>
                  \E g \in fetches' :
                      /\ g.id = f.id
                      /\ g.key = f.key
                      /\ g.waiters >= f.waiters
                      /\ \/ g.status = "pending"
                         \/ FetchReject(f.id)
                         \/ \E v \in env.values :
                                /\ FetchResolve(f.id, v)
                                /\ g.status = "fulfilled"
                                /\ g.value = v
                                /\ written'[f.key] = v
                                /\ cache'[Len(cache')].key = f.key]_vars

\* C27 witness: a fetch for k is pending with two callers waiting for it,
\* and an entry written under k in the meantime holds a value other than the
\* one the fetcher can resolve to
C27_Witness ==
    \E f \in fetches :
        /\ f.status = "pending"
        /\ f.waiters = 2
        /\ MapHas(cache, f.key)
        /\ written[f.key] = "null"
        /\ "v" \in env.values

\* C27 second witness: the fetch has succeeded after its key was written:
\* the promise two callers hold is fulfilled with the value stored
C27_WitnessDelivered ==
    \E f \in fetches :
        /\ f.status = "fulfilled"
        /\ f.waiters = 2
        /\ f.value = "v"
        /\ written[f.key] = "v"
        /\ stats.misses = 1
        /\ "null" \in env.values

\* C28: the key of a call.  With a keyGenerator configured the argument part
\* is what the generator returns, hashKeys or not; otherwise with hashKeys it
\* is the hash of the serialized arguments; otherwise it is the serialized
\* arguments; and the key is the method name, a colon and the argument part.
\* The call looks the key up and stores its result under it.  For the call
\* a('a') the three keys are a:a (here the generator returns its first
\* argument), a:ca0f9962 and a:["a"].
C28_KeyPrecedence ==
    \A in \in CallInputs :
        LET r == CallOf(in)
            part == IF env.keyGenerator # "none"
                    THEN keyGenerator(env.keyGenerator, in.a)
                    ELSE IF env.hashKeys
                    THEN fnv1aHash(JSONstringify(in.a))
                    ELSE JSONstringify(in.a)
        IN  /\ r.ret.key = in.p \o <<":">> \o part
            /\ r.ret.path = "stored" =>
                   r.cache[Len(r.cache)].key = in.p \o <<":">> \o part
            /\ r.ret.path = "cached" =>
                   \E i \in 1..Len(cache) : cache[i].key = in.p \o <<":">> \o part
            /\ (in.p = <<"a">> /\ in.a = <<<<"a">>>>) =>
                   r.ret.key =
                       IF env.keyGenerator # "none" THEN <<"a", ":", "a">>
                       ELSE IF env.hashKeys
                       THEN <<"a", ":", "c", "a", "0", "f", "9", "9", "6", "2">>
                       ELSE <<"a", ":", "[", "\"", "a", "\"", "]">>

\* C28 witness: with a keyGenerator and hashKeys both configured, the result
\* of the call a('a') is stored under a:a
C28_Witness ==
    /\ env.keyGenerator = "first"
    /\ env.hashKeys
    /\ \E i \in 1..Len(cache) : cache[i].key = <<"a", ":", "a">>

\* C28 second witness: with hashKeys alone, the result of the call a('a') is
\* stored under a:ca0f9962
C28_WitnessHashed ==
    /\ env.keyGenerator = "none"
    /\ env.hashKeys
    /\ \E i \in 1..Len(cache) :
           cache[i].key = <<"a", ":", "c", "a", "0", "f", "9", "9", "6", "2">>

\* C29: a wrapped function that returns a promise which rejects later.  The
\* call that invokes it stores the promise under the key and returns it; and
\* while the entry is stored and not expired when the call reads it, every
\* call with the same arguments returns that same promise and does not invoke
\* the function
C29_FailingHandle ==
    \A in \in CallInputs :
        LET r == CallOf(in)
            key == KeyOf(in)
            after == [cache |-> r.cache, stats |-> r.stats, events |-> <<>>]
        IN  /\ (~has(Engine, key, now).ret /\ ~in.o.throws
                /\ in.o.value = RejectedPromise) =>
                   /\ r.ret.value = RejectedPromise
                   /\ has(after, key, in.t2).ret
                   /\ get(after, key, in.t2).ret = RejectedPromise
                   /\ \A self \in Instances, o \in Outcomes :
                          LET again == cachedCall(after, in.p, self, in.a, o,
                                                  in.t2, in.t2)
                          IN  /\ again.ret.value = RejectedPromise
                              /\ again.ret.invoked = <<>>
            /\ (\E i \in 1..Len(cache) :
                    /\ cache[i].key = key
                    /\ cache[i].value = RejectedPromise
                    /\ (ttl = 0 \/ in.t2 - cache[i].timestamp <= ttl)) =>
                   /\ r.ret.value = RejectedPromise
                   /\ r.ret.error = ""
                   /\ r.ret.invoked = <<>>

\* C29 witness: a promise that rejects is stored, is not expired, and has
\* been returned from the cache (a hit is counted)
C29_Witness ==
    /\ ttl > 0
    /\ stats.hits >= 1
    /\ \E i \in 1..Len(cache) :
           /\ cache[i].value = RejectedPromise
           /\ cache[i].timestamp < now
           /\ now - cache[i].timestamp <= ttl

\* C30, deleteAsync in a state: it leaves the store and the counters delete
\* leaves, its promise is resolved, when the call returns, with the boolean
\* delete returns, and it calls onDelete when delete does, for the same key
\* and value (once when an entry is removed, never otherwise)
C30_SameResult ==
    \A k \in AllKeys :
        LET d == delete(Engine, k)
            a == deleteAsync(Engine, k)
        IN  /\ a.cache = d.cache
            /\ a.stats = d.stats
            /\ a.ret.promise = "fulfilled"
            /\ a.ret.value = d.ret
            /\ a.ret.value = (\E i \in 1..Len(cache) : cache[i].key = k)
            /\ Len(a.events) = (IF a.ret.value THEN 1 ELSE 0)
            /\ Len(a.events) = Len(d.events)
            /\ \A i \in 1..Len(a.events) :
                   /\ a.events[i].hook = "onDelete"
                   /\ a.events[i].hook = d.events[i].hook
                   /\ a.events[i].key = d.events[i].key
                   /\ a.events[i].value = d.events[i].value
            /\ ~MapHas(a.cache, k)

\* C30: deleteAsync(k) does what delete(k) does: the same store, counters and
\* registry, the same boolean, onDelete under the same condition, and the
\* removal has taken effect when the call returns
C30_DeleteAsync ==
    /\ []C30_SameResult
    /\ [][\A k \in env.keys :
              DeleteAsync(k) =>
                  /\ cache' = delete(Engine, k).cache
                  /\ UNCHANGED <<stats, inFlight, fetches>>]_vars

\* C30 witness: with a fetch registered and a counter moved, an entry is
\* stored under k and deleteAsync(k) removes it, and another key is not
\* stored
C30_Witness ==
    /\ inFlight # {}
    /\ stats # ZeroStats
    /\ \E i \in 1..Len(cache) :
           /\ deleteAsync(Engine, cache[i].key).ret.value = TRUE
           /\ Len(deleteAsync(Engine, cache[i].key).cache) = Len(cache) - 1
    /\ \E k \in env.keys : Absent(k) /\ deleteAsync(Engine, k).ret.value = FALSE

\* ------------------------------------------------------------ claims 31-38
\* C31: clear() calls onDelete with source clear exactly once for each entry
\* stored at the call, expired or not, with the entry's value, and calls no
\* other hook; afterwards the store is empty (size() returns 0 and has is
\* false for every key) and the four counters are as before; on an empty
\* store it calls nothing and changes nothing
C31_Clear ==
    LET r == clear(Engine)
        after == [cache |-> r.cache, stats |-> r.stats, events |-> <<>>]
    IN  /\ Len(r.events) = Len(cache)
        /\ \A i \in 1..Len(r.events) :
               /\ r.events[i].hook = "onDelete"
               /\ r.events[i].info = "clear"
        /\ \A i \in 1..Len(cache) :
               Cardinality({j \in 1..Len(r.events) :
                               /\ r.events[j].key = cache[i].key
                               /\ r.events[j].value = written[cache[i].key]}) = 1
        /\ r.cache = <<>>
        /\ size(after, now).ret = 0
        /\ \A k \in AllKeys : has(after, k, now).ret = FALSE
        /\ r.stats = stats
        /\ r.ret = "void"
        /\ cache = <<>> => r.events = <<>> /\ r.cache = cache

\* C31 witness: two entries are stored and a counter has moved
C31_Witness ==
    /\ Len(cache) = 2
    /\ stats.hits >= 1
    /\ Len(clear(Engine).events) = 2

\* C31 second witness: the one entry stored is older than ttl
C31_WitnessExpired ==
    /\ ttl > 0
    /\ Len(cache) = 1
    /\ now - cache[1].timestamp > ttl
    /\ Len(clear(Engine).events) = 1

\* the getOrSet calls that miss with no promise registered for the key
Misses == {k \in env.keys : getOrSet(Engine, k, FALSE, now).ret.path = "fetch"}

\* C32, the part that holds: when the fetcher is invoked the miss is
\* counted and onMiss (reason not_found) was the last hook called; and when
\* the call returns, a fetcher that did not throw is registered
C32_MissThenFetcher ==
    \A k \in Misses :
        LET m == getOrSetAtFetcher(Engine, k, now)
            r == getOrSet(Engine, k, FALSE, now)
        IN  /\ m.stats.misses = stats.misses + 1
            /\ m.events # <<>>
            /\ m.events[Len(m.events)].hook = "onMiss"
            /\ m.events[Len(m.events)].info = "not_found"
            /\ InFlightHas(r.ret.inFlight, k)

\* C32 (as claimed): on a miss with no outstanding fetch the miss is
\* recorded, onMiss fires, the pending fetch is registered and only then the
\* fetcher is invoked, so that at the moment the fetcher runs the registry
\* holds the key
C32_MissOrder ==
    /\ C32_MissThenFetcher
    /\ \A k \in Misses :
           InFlightHas(getOrSetAtFetcher(Engine, k, now).ret.inFlight, k)

\* C32, the failing case: a miss for a key with an entry stored under
\* another key; when its fetcher runs the registry does not hold the key
C32_Unregistered ==
    \E k \in Misses :
        /\ cache # <<>>
        /\ ~InFlightHas(getOrSetAtFetcher(Engine, k, now).ret.inFlight, k)
        /\ getOrSetAtFetcher(Engine, k, now).stats.misses = stats.misses + 1

\* the hooks that report the removal of an entry
RemovalHooks == {"onEvict", "onExpire", "onDelete"}

\* C33: the order of the hook calls of an operation.  A set that evicts calls
\* onEvict for the victim and then onSet for the key, and a set that does not
\* calls onSet only; a get of an expired entry calls onExpire (source get)
\* and then onMiss (reason expired); an operation other than a set (which
\* always writes) that changes neither the store nor a counter calls no
\* hook; and the hook calls of an operation
\* match its changes of the store: one removal hook for each entry it removes
\* and none for an entry it keeps, and one onSet for a set and none otherwise
C33_HookOrder ==
    /\ \A k \in env.keys, v \in env.values :
           LET r == set(Engine, k, v, now)
               onSet == [hook |-> "onSet", key |-> k, value |-> v,
                         info |-> IF Absent(k) THEN "isUpdate=false" ELSE "isUpdate=true"]
           IN  IF Gone(r.cache) = {}
               THEN r.events = <<onSet>>
               ELSE /\ Len(r.events) = 2
                    /\ r.events[1].hook = "onEvict"
                    /\ \E i \in Gone(r.cache) :
                           /\ r.events[1].key = cache[i].key
                           /\ r.events[1].value = written[cache[i].key]
                    /\ r.events[2] = onSet
    /\ \A i \in 1..Len(cache) :
           (ttl > 0 /\ now - cache[i].timestamp > ttl) =>
               get(Engine, cache[i].key, now).events
                   = <<[hook |-> "onExpire", key |-> cache[i].key,
                        value |-> written[cache[i].key], info |-> "get"],
                       [hook |-> "onMiss", key |-> cache[i].key,
                        value |-> "undefined", info |-> "expired"]>>
    /\ \A op \in OpNames, k \in env.keys, pattern \in {<<>>, <<"a">>, <<"*">>} :
           LET r == Apply(op, Engine, k, "v", pattern, now) IN
           /\ (op # "set" /\ r.cache = cache /\ r.stats = stats) => r.events = <<>>
           /\ \A i \in 1..Len(cache) :
                  Cardinality({j \in 1..Len(r.events) :
                                  /\ r.events[j].hook \in RemovalHooks
                                  /\ r.events[j].key = cache[i].key})
                      = (IF i \in Gone(r.cache) THEN 1 ELSE 0)
           /\ Cardinality({j \in 1..Len(r.events) : r.events[j].hook = "onSet"})
                  = (IF op = "set" THEN 1 ELSE 0)

\* C33 witness: the store is full, a counter has moved, and the set of a new
\* key evicts the least recently used entry
C33_Witness ==
    /\ maxSize > 0
    /\ Len(cache) = maxSize
    /\ stats.hits >= 1
    /\ \E k \in env.keys :
           /\ Absent(k)
           /\ Gone(set(Engine, k, "v", now).cache) # {}
           /\ Len(set(Engine, k, "v", now).events) = 2

\* C33 second witness: a get of an entry older than ttl calls two hooks
C33_WitnessExpired ==
    \E i \in 1..Len(cache) :
        /\ ttl > 0
        /\ now - cache[i].timestamp > ttl
        /\ Len(get(Engine, cache[i].key, now).events) = 2

\* whether the hook calls are one onDelete with the given source and the
\* value last set, for the given key
DeletedOnce(ev, k, source) ==
    /\ Len(ev) = 1
    /\ ev[1].hook = "onDelete"
    /\ ev[1].key = k
    /\ ev[1].value = written[k]
    /\ ev[1].info = source

\* C34: the write operations do not apply the TTL test.  For an entry that
\* is stored and older than ttl: set reports isUpdate = true, evicts nothing
\* and stamps the entry with the time of the set; delete and deleteAsync
\* return true, remove the entry and call onDelete for it; deleteByPrefix,
\* deleteByMagicString and clear remove it, count it in their result and call
\* onDelete for it; and none of the six calls onExpire or changes a counter
C34_WritesIgnoreTtl ==
    \A i \in 1..Len(cache) :
        (ttl > 0 /\ now - cache[i].timestamp > ttl) =>
            LET k == cache[i].key
                st == set(Engine, k, "v", now)
                d == delete(Engine, k)
                da == deleteAsync(Engine, k)
                dp == deleteByPrefix(Engine, k)
                dm == deleteByMagicString(Engine, <<"*">>)
                cl == clear(Engine)
                Counted(r) ==
                    /\ ~MapHas(r.cache, k)
                    /\ Cardinality({j \in 1..Len(r.events) :
                                       /\ r.events[j].hook = "onDelete"
                                       /\ r.events[j].key = k
                                       /\ r.events[j].value = written[k]}) = 1
                Quiet(r) ==
                    /\ r.stats = stats
                    /\ \A j \in 1..Len(r.events) : r.events[j].hook # "onExpire"
            IN  /\ st.events = <<[hook |-> "onSet", key |-> k, value |-> "v",
                                  info |-> "isUpdate=true"]>>
                /\ Len(st.cache) = Len(cache)
                /\ \A j \in 1..Len(cache) : MapHas(st.cache, cache[j].key)
                /\ MapGet(st.cache, k).timestamp = now
                /\ d.ret = TRUE /\ ~MapHas(d.cache, k)
                /\ DeletedOnce(d.events, k, "delete")
                /\ da.ret.value = TRUE /\ ~MapHas(da.cache, k)
                /\ DeletedOnce(da.events, k, "deleteAsync")
                /\ Counted(dp) /\ dp.ret = Len(dp.events) /\ dp.ret >= 1
                /\ Counted(dm) /\ dm.ret = Len(cache) /\ dm.ret = Len(dm.events)
                /\ Counted(cl) /\ Len(cl.events) = Len(cache)
                /\ Quiet(st) /\ Quiet(d) /\ Quiet(da)
                /\ Quiet(dp) /\ Quiet(dm) /\ Quiet(cl)

\* C34 witness: the store is full and its entry is older than ttl, so that a
\* get of the key would report it expired while set updates it in place
C34_Witness ==
    /\ ttl > 0
    /\ maxSize = 1
    /\ Len(cache) = 1
    /\ now - cache[1].timestamp > ttl
    /\ get(Engine, cache[1].key, now).ret = "undefined"
    /\ Len(get(Engine, cache[1].key, now).cache) = 0
    /\ Len(set(Engine, cache[1].key, "v", now).cache) = 1
    /\ delete(Engine, cache[1].key).ret = TRUE

\* the engine an operation leaves behind, for the next call to start from
After(r) == [cache |-> r.cache, stats |-> r.stats, events |-> <<>>]

\* C35 (as claimed): the expirations of the snapshot getStats() returns
\* include the entries pruned while its size was computed, and a second
\* getStats() with no operation and no clock advance in between returns an
\* equal snapshot
C35_ConsistentSnapshot ==
    LET first == getStats(Engine, now)
        second == getStats(After(first), now)
    IN  /\ first.ret.expirations = first.stats.expirations
        /\ second.ret = first.ret

\* C35, the part that holds: the snapshot's hits, misses and evictions are
\* the counters, its size is the number of entries not older than ttl, its
\* expirations is the counter as it was before the call pruned, and the
\* second of two calls in a row returns the counters and size the first
\* left; the two snapshots are equal when the first call pruned nothing
C35_SnapshotOfCounters ==
    LET first == getStats(Engine, now)
        second == getStats(After(first), now)
    IN  /\ first.ret.hits = stats.hits
        /\ first.ret.misses = stats.misses
        /\ first.ret.evictions = stats.evictions
        /\ first.ret.expirations = stats.expirations
        /\ first.ret.size = Len(cache) - Len(Aged) * (IF ttl > 0 THEN 1 ELSE 0)
        /\ first.stats.expirations = first.ret.expirations + (Len(cache) - first.ret.size)
        /\ second.ret = [first.ret EXCEPT !.expirations = first.stats.expirations]
        /\ second.cache = first.cache /\ second.stats = first.stats
        /\ first.ret.size = Len(cache) => second.ret = first.ret

\* C35: a reachable state in which getStats() prunes an entry, returns an
\* expirations value one short of the counter, and a second call returns a
\* different snapshot
C35_PrunedBehindSnapshot ==
    /\ Len(cache) = 1
    /\ getStats(Engine, now).ret.size = 0
    /\ getStats(Engine, now).ret.expirations + 1 = getStats(Engine, now).stats.expirations
    /\ getStats(After(getStats(Engine, now)), now).ret # getStats(Engine, now).ret

\* the keys whose outstanding fetches or whose registration a step changes
Touched ==
    {k \in AllKeys : \/ Outstanding(k)' # Outstanding(k)
                     \/ InFlightHas(inFlight', k) # InFlightHas(inFlight, k)}

\* C36: at most one fetch per key.  In every state no key has two fetcher
\* invocations outstanding, and the one outstanding is the one registered;
\* a getOrSet for a key with a fetch outstanding invokes no fetcher; fetches
\* for different keys are independent: a getOrSet that finds no entry and no
\* registration for its key invokes its fetcher whatever is outstanding for
\* other keys and leaves their registrations and fetches as they are, and no
\* step of the cache changes the outstanding fetches or the registration of
\* more than one key
C36_OneFetchPerKey ==
    /\ [](\A k \in AllKeys :
              /\ Cardinality(Outstanding(k)) <= 1
              /\ \A id \in Outstanding(k) :
                     InFlightHas(inFlight, k) /\ InFlightGet(inFlight, k) = id)
    /\ [](\A k \in env.keys, throws \in env.throws, t2 \in ClockAfter :
              LET r == getOrSetAt(Engine, k, throws, now, t2).ret IN
              /\ Outstanding(k) # {} =>
                     {f.id : f \in r.fetches} = {f.id : f \in fetches}
              /\ (r.path # "hit" /\ ~InFlightHas(inFlight, k)) => r.path = "fetch"
              /\ \A k2 \in AllKeys \ {k} :
                     /\ {f \in r.fetches : f.key = k2} = {f \in fetches : f.key = k2}
                     /\ InFlightHas(r.inFlight, k2) = InFlightHas(inFlight, k2)
                     /\ InFlightHas(inFlight, k2) =>
                            InFlightGet(r.inFlight, k2) = InFlightGet(inFlight, k2))
    /\ [][Cardinality(Touched) <= 1]_vars

\* C36 witness: fetches for two keys are outstanding at once, and a getOrSet
\* for either key joins instead of invoking a fetcher
C36_Witness ==
    \E k1, k2 \in env.keys :
        /\ k1 # k2
        /\ Outstanding(k1) # {} /\ Outstanding(k2) # {}
        /\ getOrSet(Engine, k1, FALSE, now).ret.path = "join"
        /\ getOrSet(Engine, k2, FALSE, now).ret.path = "join"

\* C36 second witness: a fetch is outstanding for a key whose entry was
\* written by a set in the meantime and has expired since
C36_WitnessExpired ==
    \E k \in env.keys :
        /\ Outstanding(k) # {}
        /\ MapHas(cache, k) /\ ~Live(k)

\* whether call number n is awaiting its promise
Pending(n) == \E c \in env.calls : c.call = n

\* the calls awaiting the promise of fetch id
CallsOn(id) == {c \in env.calls : c.promise = id}

\* C37: liveness of getOrSet.  Given that every invoked fetcher eventually
\* settles, every getOrSet call, the one that started the fetch and every one
\* that joined it, eventually resumes; a call awaits either an already
\* fulfilled promise or the promise of a fetch that counts it among its
\* waiters, so that once the fetch has settled the call can resume, and it
\* eventually does
C37_Liveness ==
    /\ \A n \in 1..MaxIssued : Pending(n) ~> ~Pending(n)
    /\ [](\A c \in env.calls :
              \/ c.promise = 0
              \/ \E f \in fetches :
                     /\ f.id = c.promise
                     /\ f.waiters = Cardinality(CallsOn(f.id))
                     /\ f.status # "pending" => Resumable(c))
    /\ \A n \in 1..MaxIssued :
           (\E c \in env.calls :
                c.call = n /\ \E f \in fetches : f.id = c.promise /\ f.status # "pending")
               ~> ~Pending(n)

\* C37 witness: the call that started a fetch and a call that joined it are
\* both awaiting its promise, and the fetch has failed
C37_Witness ==
    \E f \in fetches :
        /\ f.status = "rejected"
        /\ Cardinality(CallsOn(f.id)) = 2
        /\ ~InFlightHas(inFlight, f.key)

\* C37 second witness: a call has joined the rejected promise that a
\* fetcher which threw when invoked left registered, after the call that
\* invoked it has resumed
C37_WitnessStale ==
    \E f \in fetches :
        /\ f.status = "rejected"
        /\ InFlightHas(inFlight, f.key) /\ InFlightGet(inFlight, f.key) = f.id
        /\ Cardinality(CallsOn(f.id)) = 1
        /\ \A c \in CallsOn(f.id) : c.call = 3

\* the eight hexadecimal digits of a 32-bit hash, leading zeros included
Hex32(hash) == Hex16(hash[1]) \o Hex16(hash[2])

\* C38 (as claimed): with hashKeys the argument part of the key is the
\* 32-bit FNV-1a hash of the serialized arguments written as exactly 8
\* hexadecimal characters, for every input
C38_EightHexDigits ==
    env.derived =>
        /\ Len(env.argKey) = 8
        /\ env.argKey = Hex32(FnvLoop(FnvOffsetBasis, JSONstringify(env.args)))

\* C38, the part that holds: the argument part is the 32-bit FNV-1a hash
\* of JSON.stringify(args) (offset basis 0x811c9dc5, xor with the character
\* code and then multiply by 0x01000193 modulo 2^32, unsigned) written in
\* hexadecimal without leading zeros, so of 1 to 8 characters; the function
\* gives the published FNV-1a values for '' and 'a'
C38_Fnv1a ==
    /\ env.derived =>
           LET hash == FnvLoop(FnvOffsetBasis, JSONstringify(env.args)) IN
           /\ hash[1] \in 0..65535 /\ hash[2] \in 0..65535
           /\ env.argKey = StripZeros(Hex32(hash))
           /\ Len(env.argKey) \in 1..8
           /\ Len(env.argKey) > 1 => env.argKey[1] # "0"
           /\ Len(env.argKey) = 8 <=> hash[1] >= 4096
    /\ FnvOffsetBasis = <<8 * 4096 + 1 * 256 + 1 * 16 + 12, 9 * 4096 + 13 * 256 + 12 * 16 + 5>>
    /\ fnv1aHash(<<>>) = <<"8", "1", "1", "c", "9", "d", "c", "5">>
    /\ fnv1aHash(<<"a">>) = <<"e", "4", "0", "c", "2", "9", "2", "c">>

\* C38: a reachable state in which the argument part has 7 characters: the
\* call m('', 'a'), whose serialized arguments hash to 0x03bad5e6
C38_SevenDigits ==
    /\ env.derived
    /\ env.args = <<<<>>, <<"a">>>>
    /\ env.argKey = <<"3", "b", "a", "d", "5", "e", "6">>

====
